---------------------------- MODULE Spec2Model ----------------------------
(***************************************************************************)
(* Request handlers of the SNS application (Next.js API routes over a      *)
(* Postgres database and an object store) as a state machine.              *)
(*                                                                         *)
(* The database tables are the state.  A request handler is a sequence of  *)
(* awaited database statements; every statement is one atomic step, so     *)
(* handlers of concurrent requests interleave between statements.  The     *)
(* same step functions, run to completion without interruption, give the   *)
(* sequential behaviour of one request (Outcomes).                         *)
(***************************************************************************)
EXTENDS Integers, Sequences, FiniteSets, Bags, TLC

(***************************************************************************)
(* Bounds of the model.                                                    *)
(***************************************************************************)
MaxUsers == 2          \* users that have a row in the users table
MaxPosts == 2          \* posts seeded for the handler specifications
MaxInFlight == 2       \* requests being handled at the same time
MaxComments == 2       \* comment rows ever inserted
MaxFollowRows == 3     \* follow rows ever inserted
MaxContentLen == 2     \* length of a comment body
MaxPagePosts == 21     \* posts seeded for the pagination specification
MaxLimit == 3          \* largest limit query parameter that is drawn
MaxOffset == 4         \* largest offset query parameter that is drawn
MaxProbePosts == 8     \* posts seeded for single calls of GET /api/posts
MaxCapPosts == 52      \* posts seeded for calls with limits around the cap
MaxClicks == 2         \* clicks on one button
MaxFetches == 4        \* fetches of the feed after which it is not retried
MaxSelections == 3     \* posts selected in the modal, one after another
MaxLivePosts == 25     \* posts of the feed that is scrolled to its end
MaxNewPosts == 2       \* images ever uploaded by POST /api/posts

(***************************************************************************)
(* Identifiers.  A Clerk session carries a clerk id; the internal id of a  *)
(* user is a different value, found through the users table.               *)
(***************************************************************************)
NoSession == 0
Missing == 0
ClerkIds == 1..(MaxUsers + 1)          \* the last one has no users row
UserIdOf(c) == 10 + c
SyncedUsers(n) == {[id |-> UserIdOf(c), clerk_id |-> c] : c \in 1..n}

VARIABLES
  users,          \* users table: rows [id, clerk_id]
  posts,          \* posts table: rows [id, user_id, image, caption, created_at]
  likes,          \* likes table: bag of <<post_id, user_id>>
  comments,       \* comments table: rows [id, post_id, user_id, content]
  follows,        \* follows table: rows [id, follower_id, following_id]
  storage,        \* objects in the "posts" bucket
  nextCommentId,  \* id generator of the comments table
  nextFollowId,   \* id generator of the follows table
  nextPostId,     \* id generator (and clock) of the posts table
  nextObjectId,   \* generator of fresh file paths in the bucket
  reqs,           \* requests in flight: slot -> request record
  pager,          \* a client paging through GET /api/posts
  probe,          \* the last answer to a single GET /api/posts call
  likeButton,     \* a mounted LikeButton component
  followButton,   \* a mounted FollowButton component
  feed,           \* a mounted PostFeed component and its fetches in flight
  modal           \* the PostModal of the feed and its fetches in flight

dbVars == <<users, posts, likes, comments, follows, storage,
            nextCommentId, nextFollowId, nextPostId, nextObjectId>>
vars == <<users, posts, likes, comments, follows, storage,
          nextCommentId, nextFollowId, nextPostId, nextObjectId, reqs,
          pager, probe, likeButton, followButton, feed, modal>>
uiVars == <<likeButton, followButton, feed, modal>>

DB == [users |-> users, posts |-> posts, likes |-> likes,
       comments |-> comments, follows |-> follows, storage |-> storage,
       nextCommentId |-> nextCommentId, nextFollowId |-> nextFollowId,
       nextPostId |-> nextPostId, nextObjectId |-> nextObjectId]

Slots == 1..MaxInFlight

(***************************************************************************)
(* Helpers.                                                                *)
(***************************************************************************)
Min(a, b) == IF a < b THEN a ELSE b

\* .single(): a row only when exactly one row matches
IsSingle(S) == Cardinality(S) = 1
TheRow(S) == CHOOSE x \in S : TRUE

\* String.prototype.trim over sequences of characters
IsSpace(ch) == ch = " "

RECURSIVE TrimStart(_)
TrimStart(s) ==
  IF s = <<>> THEN <<>>
  ELSE IF IsSpace(Head(s)) THEN TrimStart(Tail(s)) ELSE s

RECURSIVE TrimEnd(_)
TrimEnd(s) ==
  IF s = <<>> THEN <<>>
  ELSE IF IsSpace(s[Len(s)]) THEN TrimEnd(SubSeq(s, 1, Len(s) - 1)) ELSE s

Trim(s) == TrimEnd(TrimStart(s))

(***************************************************************************)
(* Request records: the operation, the session and the body of the         *)
(* request, the handler's position (pc) and locals (uid: currentUser.id,   *)
(* row: the row it selected or inserted), and the status it answered.      *)
(* cascaded is a history field: the numbers of like and comment rows that  *)
(* were removed together with the post a DELETE removed.                   *)
(***************************************************************************)
NoContent == [kind |-> "absent", val |-> <<>>]

IdleReq == [op |-> "none", clerk |-> NoSession, arg |-> Missing,
            content |-> NoContent, pc |-> "idle", uid |-> 0, row |-> 0,
            status |-> 0, cascaded |-> <<0, 0>>]

NewReq(op, clerk, arg, content) ==
  [op |-> op, clerk |-> clerk, arg |-> arg, content |-> content,
   pc |-> "start", uid |-> 0, row |-> 0, status |-> 0,
   cascaded |-> <<0, 0>>]

\* the answer; the request body is not part of it
Respond(r, s) ==
  [r EXCEPT !.pc = "done", !.status = s, !.content = NoContent]
Goto(r, l) == [r EXCEPT !.pc = l]
Out(d, r) == [db |-> d, r |-> r]

\* mutant: the body is read and validated before auth()
Entry_BodyFirst(d, r, next) ==
  IF r.arg = Missing THEN Respond(r, 400)
  ELSE IF r.clerk = NoSession THEN Respond(r, 401)
  ELSE LET cu == {u \in d.users : u.clerk_id = r.clerk} IN
       IF ~IsSingle(cu) THEN Respond(r, 404)
       ELSE [r EXCEPT !.uid = TheRow(cu).id, !.pc = next]

\* auth(), the id carried by the request, and the lookup of the current user
Entry(d, r, next) ==
  IF r.clerk = NoSession THEN Respond(r, 401)
  ELSE IF r.arg = Missing THEN Respond(r, 400)
  ELSE LET cu == {u \in d.users : u.clerk_id = r.clerk} IN
       IF ~IsSingle(cu) THEN Respond(r, 404)
       ELSE [r EXCEPT !.uid = TheRow(cu).id, !.pc = next]

(***************************************************************************)
(* Constraints of the schema.                                              *)
(***************************************************************************)
PostExists(d, p) == \E x \in d.posts : x.id = p
UserExists(d, u) == \E x \in d.users : x.id = u

\* likes: UNIQUE (post_id, user_id)
LikeUniqueViolation(d, p, u) == CopiesIn(<<p, u>>, d.likes) > 0

\* likes and comments: FOREIGN KEY post_id -> posts.id, user_id -> users.id
ForeignKeyViolation(d, p, u) == ~PostExists(d, p) \/ ~UserExists(d, u)

(***************************************************************************)
(* POST /api/likes                                                         *)
(***************************************************************************)
\* the error code of the insert statement, "" when the row is inserted
LikeInsertError(d, p, u) ==
  IF LikeUniqueViolation(d, p, u) THEN "23505"
  ELSE IF ForeignKeyViolation(d, p, u) THEN "23503"
  ELSE ""

\* mutant: the unique violation is not told apart from other errors
LikeInsertStatus_Generic(code) == IF code = "" THEN 200 ELSE 500

\* the status the handler answers for the outcome of the insert
LikeInsertStatus(code) ==
  IF code = "" THEN 200
  ELSE IF code = "23505" THEN 409
  ELSE 500

LikePOSTStep(d, r) ==
  CASE r.pc = "start" -> {Out(d, Entry(d, r, "post"))}
    [] r.pc = "post" ->
         {Out(d, IF IsSingle({x \in d.posts : x.id = r.arg})
                 THEN Goto(r, "insert") ELSE Respond(r, 404))}
    [] r.pc = "insert" ->
         LET code == LikeInsertError(d, r.arg, r.uid) IN
         {Out(IF code = ""
              THEN [d EXCEPT !.likes = @ (+) SetToBag({<<r.arg, r.uid>>})]
              ELSE d,
              Respond(r, LikeInsertStatus(code)))}

(***************************************************************************)
(* DELETE /api/likes                                                       *)
(***************************************************************************)
\* mutant: the delete is not restricted to the requester's rows
DeleteLikes_AnyUser(d, p, u) ==
  [d EXCEPT !.likes = [k \in {e \in DOMAIN @ : e[1] # p} |-> @[k]]]

\* .from("likes").delete().eq("post_id", post_id).eq("user_id", currentUser.id)
DeleteLikes(d, p, u) ==
  [d EXCEPT !.likes = [k \in (DOMAIN @) \ {<<p, u>>} |-> @[k]]]

\* mutant: a delete that removed no row is reported as not found
LikeDeleteStatus_Strict(removed) == IF removed = 0 THEN 404 ELSE 200

\* the delete statement reported no error: success, whatever it removed
LikeDeleteStatus(removed) == 200

LikeDELETEStep(d, r) ==
  CASE r.pc = "start" -> {Out(d, Entry(d, r, "delete"))}
    [] r.pc = "delete" ->
         {Out(DeleteLikes(d, r.arg, r.uid),
              Respond(r, LikeDeleteStatus(CopiesIn(<<r.arg, r.uid>>,
                                                   d.likes))))}

(***************************************************************************)
(* DELETE /api/posts/[postId]                                              *)
(***************************************************************************)
\* mutant: the delete statement matches no row
DeletePostRow_NoMatch(d, p) == d

\* .from("posts").delete().eq("id", postId)
DeletePostRow(d, p) == [d EXCEPT !.posts = {x \in @ : x.id # p}]

\* ON DELETE CASCADE of likes.post_id and comments.post_id: the rows of a
\* post that is gone go with it
OnDeleteCascade(d) ==
  [d EXCEPT !.likes = [k \in {e \in DOMAIN @ : PostExists(d, e[1])} |-> @[k]],
            !.comments = {c \in @ : PostExists(d, c.post_id)}]

\* mutant: the owner of the post is not compared with the requester
PostOwnedBy_Anyone(post, uid) == TRUE

\* the requester may delete the post only when the post is the requester's
PostOwnedBy(post, uid) == post.user_id = uid

\* mutant: an error of the storage removal ends the request
StorageErrorNext_Blocking(r) == Respond(r, 500)

\* if (storageError): the error is logged and the handler goes on
StorageErrorNext(r) == Goto(r, "delete")

PostDELETEStep(d, r) ==
  CASE r.pc = "start" -> {Out(d, Entry(d, r, "post"))}
    [] r.pc = "post" ->
         LET found == {x \in d.posts : x.id = r.arg} IN
         {Out(d, IF ~IsSingle(found) THEN Respond(r, 404)
                 ELSE IF ~PostOwnedBy(TheRow(found), r.uid)
                      THEN Respond(r, 403)
                 ELSE IF TheRow(found).image # 0
                      THEN [r EXCEPT !.row = TheRow(found).image,
                                     !.pc = "storage"]
                 ELSE Goto(r, "delete"))}
    [] r.pc = "storage" ->
         \* remove() either removes the object or reports an error that
         \* the handler only logs
         {Out([d EXCEPT !.storage = @ \ {r.row}], Goto(r, "delete")),
          Out(d, StorageErrorNext(r))}
    [] r.pc = "delete" ->
         \* the delete statement removes the row, or fails with deleteError
         {Out(OnDeleteCascade(DeletePostRow(d, r.arg)),
              [Respond(r, 200) EXCEPT !.cascaded =
                 <<Cardinality({e \in DOMAIN d.likes : e[1] = r.arg}),
                   Cardinality({c \in d.comments : c.post_id = r.arg})>>]),
          Out(d, Respond(r, 500))}

(***************************************************************************)
(* POST /api/posts.  The form carries an image (its size in bytes and its  *)
(* MIME type) and a caption.  A caption is held as the numbers of white    *)
(* space characters before and after its text and the length of the text   *)
(* between them, which is what trim() and length read.                     *)
(***************************************************************************)
MAX_FILE_SIZE == 5242880
MAX_CAPTION_LENGTH == 2200
ALLOWED_MIME_TYPES == {"image/jpeg", "image/png", "image/webp", "image/gif"}

NoImage == [present |-> FALSE, size |-> 0, type |-> ""]
NoCaption == [present |-> FALSE, lead |-> 0, core |-> 0, trail |-> 0]
Form(image, caption) ==
  [kind |-> "form", val |-> <<>>, image |-> image, caption |-> caption]

\* captionText = caption?.trim() || null, by its length (0: null)
CaptionLength(c) == IF c.present THEN c.core ELSE 0

\* mutant: a file of exactly the maximum size is refused
FileTooLarge_Inclusive(size) == size >= MAX_FILE_SIZE

\* image.size > MAX_FILE_SIZE
FileTooLarge(size) == size > MAX_FILE_SIZE

\* the checks of the form, in the order of the handler
FormRejected(f) ==
  \/ ~f.image.present
  \/ FileTooLarge(f.image.size)
  \/ f.image.type \notin ALLOWED_MIME_TYPES
  \/ CaptionLength(f.caption) > MAX_CAPTION_LENGTH

\* mutant: an upload error is only logged
UploadFailureStatus_Ignored(r) == Goto(r, "insert")

\* if (uploadError) return 500
UploadFailureStatus(r) == Respond(r, 500)

\* arg holds the length of captionText once the form is read, row the path
\* of the uploaded object
PostPOSTStep(d, r) ==
  CASE r.pc = "start" ->
         {Out(d,
              IF r.clerk = NoSession THEN Respond(r, 401)
              ELSE IF FormRejected(r.content) THEN Respond(r, 400)
              ELSE LET cu == {u \in d.users : u.clerk_id = r.clerk} IN
                   IF ~IsSingle(cu) THEN Respond(r, 404)
                   ELSE [r EXCEPT !.uid = TheRow(cu).id,
                                  !.arg = CaptionLength(r.content.caption),
                                  !.pc = "upload"])}
    [] r.pc = "upload" ->
         \* upload() stores the object under a fresh path, or reports an
         \* error
         {Out([d EXCEPT !.storage = @ \cup {d.nextObjectId},
                        !.nextObjectId = @ + 1],
              [r EXCEPT !.row = d.nextObjectId, !.pc = "insert"]),
          Out(d, UploadFailureStatus(r))}
    [] r.pc = "insert" ->
         \* the insert stores the row, or reports an error
         {Out([d EXCEPT !.posts = @ \cup
                          {[id |-> d.nextPostId, user_id |-> r.uid,
                            image |-> r.row, caption |-> r.arg,
                            created_at |-> d.nextPostId]},
                        !.nextPostId = @ + 1],
              Respond(r, 200))}
           \cup {Out(d, Goto(r, "rollback"))}
    [] r.pc = "rollback" ->
         \* remove() of the uploaded object; its failure is ignored
         {Out([d EXCEPT !.storage = @ \ {r.row}], Respond(r, 500)),
          Out(d, Respond(r, 500))}

(***************************************************************************)
(* POST /api/comments                                                      *)
(***************************************************************************)
\* mutant: the content is not trimmed before it is tested
ContentRejected_Untrimmed(c) == c.kind # "string" \/ c.val = <<>>

\* !content || typeof content !== "string" || content.trim().length === 0
ContentRejected(c) ==
  \/ c.kind # "string"
  \/ c.val = <<>>
  \/ Len(Trim(c.val)) = 0

\* the content column of the inserted row
StoredContent(c) == Trim(c.val)

CommentPOSTStep(d, r) ==
  CASE r.pc = "start" ->
         {Out(d, IF r.clerk = NoSession THEN Respond(r, 401)
                 ELSE IF r.arg = Missing THEN Respond(r, 400)
                 ELSE IF ContentRejected(r.content) THEN Respond(r, 400)
                 ELSE Entry(d, r, "post"))}
    [] r.pc = "post" ->
         {Out(d, IF IsSingle({x \in d.posts : x.id = r.arg})
                 THEN Goto(r, "insert") ELSE Respond(r, 404))}
    [] r.pc = "insert" ->
         IF ForeignKeyViolation(d, r.arg, r.uid)
         THEN {Out(d, Respond(r, 500))}
         ELSE {Out([d EXCEPT
                      !.comments = @ \cup
                         {[id |-> d.nextCommentId, post_id |-> r.arg,
                           user_id |-> r.uid,
                           content |-> StoredContent(r.content)]},
                      !.nextCommentId = @ + 1],
                   [Respond(r, 200) EXCEPT !.row = d.nextCommentId])}

(***************************************************************************)
(* DELETE /api/comments                                                    *)
(***************************************************************************)
\* mutant: the ownership of the comment is not checked
CommentOwnedBy_Anyone(comment, uid) == TRUE

\* the requester may delete the comment only when it is the requester's own
CommentOwnedBy(comment, uid) == comment.user_id = uid

CommentDELETEStep(d, r) ==
  CASE r.pc = "start" -> {Out(d, Entry(d, r, "comment"))}
    [] r.pc = "comment" ->
         LET found == {c \in d.comments : c.id = r.arg} IN
         {Out(d, IF ~IsSingle(found) THEN Respond(r, 404)
                 ELSE IF ~CommentOwnedBy(TheRow(found), r.uid)
                      THEN Respond(r, 403)
                 ELSE Goto(r, "delete"))}
    [] r.pc = "delete" ->
         {Out([d EXCEPT !.comments = {c \in @ : c.id # r.arg}],
              Respond(r, 200))}

(***************************************************************************)
(* POST /api/follows                                                       *)
(***************************************************************************)
\* mutant: the handler does not compare the requester with the target
IsSelfFollow_Never(uid, target) == FALSE

\* currentUser.id === following_id
IsSelfFollow(uid, target) == uid = target

FollowRows(d, a, b) ==
  {f \in d.follows : f.follower_id = a /\ f.following_id = b}

\* follows: UNIQUE (follower_id, following_id), CHECK (follower_id !=
\* following_id), FOREIGN KEY of both columns -> users.id
FollowInsertError(d, a, b) ==
  IF FollowRows(d, a, b) # {} THEN "23505"
  ELSE IF a = b THEN "23514"
  ELSE IF ~UserExists(d, a) \/ ~UserExists(d, b) THEN "23503"
  ELSE ""

\* mutant: a unique violation is answered like any other insert error
FollowInsertStatus_Generic(code) == IF code = "" THEN 200 ELSE 500

FollowInsertStatus(code) ==
  IF code = "" THEN 200
  ELSE IF code = "23505" THEN 400
  ELSE 500

FollowPOSTStep(d, r) ==
  CASE r.pc = "start" ->
         LET e == Entry(d, r, "target") IN
         {Out(d, IF e.pc = "target" /\ IsSelfFollow(e.uid, r.arg)
                 THEN Respond(e, 400) ELSE e)}
    [] r.pc = "target" ->
         {Out(d, IF IsSingle({u \in d.users : u.id = r.arg})
                 THEN Goto(r, "existing") ELSE Respond(r, 404))}
    [] r.pc = "existing" ->
         {Out(d, IF IsSingle(FollowRows(d, r.uid, r.arg))
                 THEN Respond(r, 400) ELSE Goto(r, "insert"))}
    [] r.pc = "insert" ->
         LET code == FollowInsertError(d, r.uid, r.arg) IN
         IF code # ""
         THEN {Out(d, Respond(r, FollowInsertStatus(code)))}
         ELSE {Out([d EXCEPT
                      !.follows = @ \cup
                         {[id |-> d.nextFollowId, follower_id |-> r.uid,
                           following_id |-> r.arg]},
                      !.nextFollowId = @ + 1],
                   [Respond(r, FollowInsertStatus(code)) EXCEPT
                      !.row = d.nextFollowId])}

(***************************************************************************)
(* DELETE /api/follows                                                     *)
(***************************************************************************)
\* mutant: the delete statement matches no row
DeleteFollow_NoRow(d, id) == d

\* .from("follows").delete().eq("id", follow.id)
DeleteFollow(d, id) == [d EXCEPT !.follows = {f \in @ : f.id # id}]

\* mutant: a missing follow row is answered as a success
FollowLookupStatus_Lenient(found) == IF IsSingle(found) THEN 0 ELSE 200

\* the status answered when the follow row of the requester is looked up
FollowLookupStatus(found) == IF IsSingle(found) THEN 0 ELSE 404

FollowDELETEStep(d, r) ==
  CASE r.pc = "start" -> {Out(d, Entry(d, r, "follow"))}
    [] r.pc = "follow" ->
         LET found == FollowRows(d, r.uid, r.arg) IN
         {Out(d, IF FollowLookupStatus(found) # 0
                 THEN Respond(r, FollowLookupStatus(found))
                 ELSE IF TheRow(found).follower_id # r.uid
                      THEN Respond(r, 403)
                 ELSE [r EXCEPT !.row = TheRow(found).id, !.pc = "delete"])}
    [] r.pc = "delete" ->
         {Out(DeleteFollow(d, r.row), Respond(r, 200))}

(***************************************************************************)
(* Identity: GET /api/users/me, and the synchronisation of the signed-in   *)
(* user into the users table.                                              *)
(***************************************************************************)
\* mutant: the users row is looked up by its internal id
ResolveUser_ById(d, clerk) == {u \in d.users : u.id = clerk}

\* .from("users").select("id").eq("clerk_id", clerkUserId)
ResolveUser(d, clerk) == {u \in d.users : u.clerk_id = clerk}

\* the response carries the internal id in row
UsersMeGETStep(d, r) ==
  {Out(d, IF r.clerk = NoSession THEN Respond(r, 401)
          ELSE IF ~IsSingle(ResolveUser(d, r.clerk)) THEN Respond(r, 404)
          ELSE [Respond(r, 200) EXCEPT
                  !.uid = TheRow(ResolveUser(d, r.clerk)).id,
                  !.row = TheRow(ResolveUser(d, r.clerk)).id])}

\* the synchronisation: the internal id of the signed-in user, whose row is
\* created when it is absent
SyncUserStep(d, r) ==
  IF r.clerk = NoSession THEN {Out(d, Respond(r, 401))}
  ELSE LET found == {u \in d.users : u.clerk_id = r.clerk}
           id == IF found = {} THEN UserIdOf(r.clerk) ELSE TheRow(found).id
       IN {Out(IF found = {}
               THEN [d EXCEPT !.users =
                       @ \cup {[id |-> id, clerk_id |-> r.clerk]}]
               ELSE d,
               [Respond(r, 200) EXCEPT !.uid = id, !.row = id])}

(***************************************************************************)
(* One step of a handler, and a handler run to completion.                 *)
(***************************************************************************)
Step(d, r) ==
  CASE r.op = "LikePOST" -> LikePOSTStep(d, r)
    [] r.op = "LikeDELETE" -> LikeDELETEStep(d, r)
    [] r.op = "PostDELETE" -> PostDELETEStep(d, r)
    [] r.op = "PostPOST" -> PostPOSTStep(d, r)
    [] r.op = "CommentPOST" -> CommentPOSTStep(d, r)
    [] r.op = "CommentDELETE" -> CommentDELETEStep(d, r)
    [] r.op = "FollowPOST" -> FollowPOSTStep(d, r)
    [] r.op = "FollowDELETE" -> FollowDELETEStep(d, r)
    [] r.op = "UsersMeGET" -> UsersMeGETStep(d, r)
    [] r.op = "SyncUser" -> SyncUserStep(d, r)

\* the results of handling request r alone, from database d
RECURSIVE Outcomes(_, _)
Outcomes(d, r) ==
  IF r.pc = "done" THEN {Out(d, r)}
  ELSE UNION {Outcomes(o.db, o.r) : o \in Step(d, r)}

(***************************************************************************)
(* Derived relations and the read handlers.                                *)
(***************************************************************************)
\* post_stats: one row per post with its numbers of likes and comments
PostStats(d) ==
  {[post_id |-> x.id, user_id |-> x.user_id, created_at |-> x.created_at,
    likes_count |->
      BagCardinality([k \in {e \in DOMAIN d.likes : e[1] = x.id}
                        |-> d.likes[k]]),
    comments_count |-> Cardinality({c \in d.comments : c.post_id = x.id})]
   : x \in d.posts}

\* user_stats: one row per user with its numbers of posts, followers and
\* followed users
UserStats(d) ==
  {[user_id |-> u.id,
    posts_count |-> Cardinality({x \in d.posts : x.user_id = u.id}),
    followers_count |->
      Cardinality({f \in d.follows : f.following_id = u.id}),
    following_count |->
      Cardinality({f \in d.follows : f.follower_id = u.id})]
   : u \in d.users}

\* .order("created_at", { ascending: false }): the row at position i is the
\* one with i - 1 newer rows.  No two rows share a created_at, which is the
\* value of the clock of the posts table at the insert.  (T is S, bound to
\* its value once.)
OrderByCreatedDesc(S) ==
  CHOOSE rows \in
    {[i \in 1..Cardinality(T) |->
        CHOOSE x \in T :
          Cardinality({y \in T : y.created_at > x.created_at}) = i - 1]
     : T \in {S}} : TRUE

\* .order("created_at", { ascending: true }) of comments; a comment's id is
\* its position in creation order
RECURSIVE OrderByCreatedAsc(_)
OrderByCreatedAsc(S) ==
  IF S = {} THEN <<>>
  ELSE LET m == CHOOSE x \in S : \A y \in S : x.id <= y.id
       IN <<m>> \o OrderByCreatedAsc(S \ {m})

\* mutant: the upper end of the range is taken as exclusive
Range_Exclusive(rows, from, to) ==
  IF from >= Len(rows) \/ to <= from THEN <<>>
  ELSE SubSeq(rows, from + 1, Min(to, Len(rows)))

\* .range(from, to): rows from..to of the result, counted from 0
Range(rows, from, to) ==
  IF from >= Len(rows) \/ to < from THEN <<>>
  ELSE SubSeq(rows, from + 1, Min(to + 1, Len(rows)))

AbsentParam == -1
NoFilter == 0
DEFAULT_LIMIT == 10
LIMIT_CAP == 50
DEFAULT_OFFSET == 0

\* mutant: the limit of the request is used as it is
EffectiveLimit_Uncapped(l) == IF l = AbsentParam THEN DEFAULT_LIMIT ELSE l

\* Math.min(parseInt(searchParams.get("limit") || "10"), 50)
EffectiveLimit(l) ==
  Min(IF l = AbsentParam THEN DEFAULT_LIMIT ELSE l, LIMIT_CAP)

\* parseInt(searchParams.get("offset") || "0")
EffectiveOffset(o) == IF o = AbsentParam THEN DEFAULT_OFFSET ELSE o

\* mutant: any non-empty page announces a further page
HasMore_NonEmpty(count, limit) == count > 0

\* const hasMore = formattedPosts.length === limit
HasMore(count, limit) == count = limit

\* mutant: next_offset is sent with every answer
NextOffset_Always(hasMore, offset, limit) == offset + limit

\* next_offset: hasMore ? offset + limit : undefined
NextOffset(hasMore, offset, limit) ==
  IF hasMore THEN offset + limit ELSE AbsentParam

PostsError(s) ==
  [status |-> s, data |-> <<>>, has_more |-> FALSE,
   next_offset |-> AbsentParam]

\* GET /api/posts?limit&offset&userId
GetPosts(d, clerk, limitParam, offsetParam, userId) ==
  IF clerk = NoSession THEN PostsError(401)
  ELSE LET cu == {u \in d.users : u.clerk_id = clerk} IN
  IF ~IsSingle(cu) THEN PostsError(404)
  ELSE
    LET limit == EffectiveLimit(limitParam)
        offset == EffectiveOffset(offsetParam)
        matching == {x \in PostStats(d) :
                       userId = NoFilter \/ x.user_id = userId}
        sorted == CHOOSE rows \in {OrderByCreatedDesc(matching)} : TRUE
        formatted ==
          CHOOSE rows \in
            {[i \in 1..Len(page) |->
                [id |-> page[i].post_id, user_id |-> page[i].user_id,
                 likes_count |-> page[i].likes_count,
                 comments_count |-> page[i].comments_count,
                 is_liked |-> BagIn(<<page[i].post_id, TheRow(cu).id>>,
                                    d.likes)]]
             : page \in {Range(sorted, offset, offset + limit - 1)}} : TRUE
        hasMore == HasMore(Len(formatted), limit)
    IN [status |-> 200, data |-> formatted, has_more |-> hasMore,
        next_offset |-> NextOffset(hasMore, offset, limit)]

\* mutant: a like of any user counts
ViewerLiked_AnyUser(d, cu, p) ==
  \E u \in d.users : CopiesIn(<<p, u.id>>, d.likes) >= 1

\* isLiked of GET /api/posts/[postId]: the single() lookups of the
\* requester's users row and of the likes row of that user for the post
ViewerLiked(d, cu, p) ==
  /\ IsSingle(cu)
  /\ CopiesIn(<<p, TheRow(cu).id>>, d.likes) = 1

\* GET /api/posts/[postId]
GetPost(d, clerk, p) ==
  LET stats == {x \in PostStats(d) : x.post_id = p}
      cu == {u \in d.users : u.clerk_id = clerk}
  IN
  IF ~IsSingle(stats) \/ ~IsSingle({x \in d.posts : x.id = p})
  THEN [status |-> 404, likes_count |-> 0, comments_count |-> 0,
        is_liked |-> FALSE]
  ELSE IF ~UserExists(d, TheRow(stats).user_id)
  THEN [status |-> 404, likes_count |-> 0, comments_count |-> 0,
        is_liked |-> FALSE]
  ELSE [status |-> 200, likes_count |-> TheRow(stats).likes_count,
        comments_count |-> TheRow(stats).comments_count,
        is_liked |-> clerk # NoSession /\ ViewerLiked(d, cu, p)]

\* GET /api/comments?post_id&limit&offset
GetComments(d, p, limitParam, offsetParam) ==
  IF p = Missing
  THEN [status |-> 400, comments |-> <<>>, total |-> 0]
  ELSE
    LET limit == IF limitParam = AbsentParam THEN 50 ELSE limitParam
        offset == IF offsetParam = AbsentParam THEN 0 ELSE offsetParam
        rows == OrderByCreatedAsc({c \in d.comments : c.post_id = p})
    IN [status |-> 200,
        comments |-> Range(rows, offset, offset + limit - 1),
        total |-> Cardinality({c \in d.comments : c.post_id = p})]

\* GET /api/users/[userId] for a userId that is an internal id
GetUser(d, clerk, target) ==
  LET cu == {u \in d.users : u.clerk_id = clerk}
      current == IF clerk # NoSession /\ IsSingle(cu)
                 THEN TheRow(cu).id ELSE 0
      stats == {x \in UserStats(d) : x.user_id = target}
  IN
  IF ~IsSingle(stats) \/ ~IsSingle({u \in d.users : u.id = target})
  THEN [status |-> 404, posts_count |-> 0, followers_count |-> 0,
        following_count |-> 0, is_following |-> FALSE]
  ELSE [status |-> 200, posts_count |-> TheRow(stats).posts_count,
        followers_count |-> TheRow(stats).followers_count,
        following_count |-> TheRow(stats).following_count,
        is_following |-> /\ current # 0
                         /\ current # target
                         /\ IsSingle(FollowRows(d, current, target))]

(***************************************************************************)
(* Initial states.                                                         *)
(***************************************************************************)
\* post k of the seed: owners alternate, creation times are distinct, and
\* every other image is an object of the bucket (0: an external URL)
SeedPost(k) ==
  [id |-> k, user_id |-> UserIdOf(((k - 1) % MaxUsers) + 1),
   image |-> IF k % 2 = 1 THEN k ELSE 0, caption |-> 0, created_at |-> k]

SeedPosts(n) == {SeedPost(k) : k \in 1..n}

FEED_LIMIT == 10

IdlePager ==
  [clerk |-> NoSession, limit |-> FEED_LIMIT, userId |-> NoFilter,
   offset |-> 0, ids |-> <<>>, fetches |-> 0, hasMore |-> TRUE,
   error |-> FALSE]

NoProbe ==
  [status |-> 0, clerk |-> AbsentParam, limit |-> AbsentParam, offset |-> AbsentParam,
   userId |-> NoFilter, ids |-> <<>>, has_more |-> FALSE,
   next_offset |-> AbsentParam]

\* no LikeButton is mounted
NoLikeButton ==
  [pc |-> "unmounted", clerk |-> NoSession, postId |-> 0,
   liked |-> FALSE, likesCount |-> 0,
   isAnimating |-> FALSE, isLoading |-> FALSE,
   previousLiked |-> FALSE, previousCount |-> 0,
   newLiked |-> FALSE, newCount |-> 0,
   req |-> IdleReq, outcome |-> "none", clicks |-> 0, changes |-> <<>>]

\* no FollowButton is mounted
NoFollowButton ==
  [pc |-> "unmounted", clerk |-> NoSession, targetUserId |-> 0,
   isFollowing |-> FALSE, followersCount |-> 0, isLoading |-> FALSE,
   previousState |-> FALSE, previousCount |-> 0,
   req |-> IdleReq, outcome |-> "none", clicks |-> 0, changes |-> <<>>]

\* PostFeed before Clerk has loaded the user: the useState values, no
\* fetch in flight (inflight: the calls of loadPosts that await an answer,
\* as [offset, append, n] with n the number of the call; fetches: the
\* number of calls so far)
NoFeed ==
  [isLoaded |-> FALSE, clerk |-> NoSession, userId |-> NoFilter,
   posts |-> <<>>, isLoading |-> TRUE, isLoadingMore |-> FALSE,
   hasMore |-> TRUE, error |-> FALSE, offset |-> 0,
   inflight |-> {}, fetches |-> 0]

\* post: null
NoPost == [id |-> 0, comments_count |-> 0]

\* no submission or deletion of a comment is running
NoCall == [active |-> FALSE, post |-> NoPost, arg |-> 0]

\* the closed PostModal: the useState values, no fetch in flight (inflight:
\* the loadPost and loadComments calls that await an answer; submit and del:
\* the running CommentForm.handleSubmit and CommentList.handleDelete with
\* the post of the render whose callbacks they hold).  History: fetched is
\* the comments_count of the last loaded post, submitted and deleted count
\* the submissions and deletions that succeeded since, reported is the last
\* comments value passed to onPostChange.
NoModal ==
  [postId |-> 0, clerk |-> NoSession, post |-> NoPost, comments |-> <<>>,
   isLoading |-> FALSE, isLoadingComments |-> FALSE, error |-> FALSE,
   inflight |-> {}, fetches |-> 0, submit |-> NoCall, del |-> NoCall,
   fetched |-> AbsentParam, submitted |-> 0, deleted |-> 0,
   reported |-> AbsentParam]

\* no component of the client is mounted
IdleUi ==
  /\ likeButton = NoLikeButton
  /\ followButton = NoFollowButton
  /\ feed = NoFeed
  /\ modal = NoModal

InitDB(u, n) ==
  /\ users = SyncedUsers(u)
  /\ posts = SeedPosts(n)
  /\ likes = EmptyBag
  /\ comments = {}
  /\ follows = {}
  /\ storage = {x.image : x \in {y \in SeedPosts(n) : y.image # 0}}
  /\ nextCommentId = 1
  /\ nextFollowId = 1
  /\ nextPostId = n + 1
  /\ nextObjectId = n + 1

Init ==
  /\ InitDB(MaxUsers, MaxPosts)
  /\ reqs = [i \in Slots |-> IdleReq]
  /\ pager = IdlePager
  /\ IdleUi
  /\ probe = NoProbe

(***************************************************************************)
(* Requests: arrival and the steps of the handlers.                        *)
(***************************************************************************)
Sessions == {NoSession} \cup ClerkIds
PostArgs == 1..MaxPosts
Chars == {" ", "a"}
Strings == UNION {[1..n -> Chars] : n \in 0..MaxContentLen}
Contents ==
  {[kind |-> "string", val |-> v] : v \in Strings}
    \cup {NoContent, [kind |-> "number", val |-> <<>>]}

IdArgs(ids) == ids \cup {Missing}        \* the id of the body, or none
CommentArgs == 1..MaxComments
UserArgs == {UserIdOf(c) : c \in 1..(MaxUsers + 2)}

ValidSessions == 1..MaxUsers

\* forms of POST /api/posts: sizes and caption lengths at and around the
\* limits, every allowed type and one that is not allowed
ImageSizes ==
  {0, MAX_FILE_SIZE, MAX_FILE_SIZE + 1, MAX_FILE_SIZE + 1048576}
ImageTypes == ALLOWED_MIME_TYPES \cup {"text/plain"}
Images ==
  {NoImage} \cup {[present |-> TRUE, size |-> z, type |-> t] :
                    z \in ImageSizes, t \in ImageTypes}
Captions ==
  {NoCaption} \cup
    {[present |-> TRUE, lead |-> l, core |-> c, trail |-> t] :
       l \in 0..1, t \in 0..1,
       c \in {0, MAX_CAPTION_LENGTH, MAX_CAPTION_LENGTH + 1}}
Forms == {Form(i, c) : i \in Images, c \in Captions}

\* the forms that arrive: one at the limits, and one beyond each limit
SentForms ==
  LET png(z) == [present |-> TRUE, size |-> z, type |-> "image/png"]
      text(n, t) == [present |-> TRUE, lead |-> 0, core |-> n, trail |-> t]
  IN {Form(png(MAX_FILE_SIZE), text(MAX_CAPTION_LENGTH, 1)),
      Form(png(MAX_FILE_SIZE), NoCaption),
      Form(png(MAX_FILE_SIZE + 1), NoCaption),
      Form([present |-> TRUE, size |-> MAX_FILE_SIZE, type |-> "text/plain"],
           NoCaption),
      Form(png(MAX_FILE_SIZE), text(MAX_CAPTION_LENGTH + 1, 0)),
      Form(NoImage, NoCaption)}

PlainContents == {[kind |-> "string", val |-> <<"a">>]}

InFlight(op) ==
  Cardinality({i \in Slots : reqs[i].op = op /\ reqs[i].pc # "done"})

\* the id generators stay within the bounds of the model
WithinBounds(op) ==
  /\ op = "CommentPOST" =>
       nextCommentId + InFlight("CommentPOST") <= MaxComments
  /\ op = "FollowPOST" =>
       nextFollowId + InFlight("FollowPOST") <= MaxFollowRows
  /\ op = "PostPOST" =>
       nextObjectId + InFlight("PostPOST") <= MaxPosts + MaxNewPosts

Commit(i, o) ==
  /\ users' = o.db.users
  /\ posts' = o.db.posts
  /\ likes' = o.db.likes
  /\ comments' = o.db.comments
  /\ follows' = o.db.follows
  /\ storage' = o.db.storage
  /\ nextCommentId' = o.db.nextCommentId
  /\ nextFollowId' = o.db.nextFollowId
  /\ nextPostId' = o.db.nextPostId
  /\ nextObjectId' = o.db.nextObjectId
  /\ reqs' = [reqs EXCEPT ![i] = o.r]
  /\ UNCHANGED <<pager, probe, uiVars>>

\* a request of one of the operations ops arrives with a session of C, an
\* id of A (and a body of B when it posts a comment or a post) and its
\* handler runs
\* up to its first statement after the user lookup
Receive(i, ops, C, A, B) ==
  /\ reqs[i].pc \in {"idle", "done"}
  /\ \E op \in ops, c \in C :
       /\ WithinBounds(op)
       /\ \E a \in A,
             b \in IF op \in {"CommentPOST", "PostPOST"} THEN B
                   ELSE {NoContent} :
            \E o \in Step(DB, NewReq(op, c, a, b)) : Commit(i, o)

\* the next statement of the handler of the request in slot i
Handle(i, op) ==
  /\ reqs[i].op = op
  /\ reqs[i].pc \notin {"idle", "done"}
  /\ \E o \in Step(DB, reqs[i]) : Commit(i, o)

LikePOST(i) == Handle(i, "LikePOST")
LikeDELETE(i) == Handle(i, "LikeDELETE")
PostDELETE(i) == Handle(i, "PostDELETE")
PostPOST(i) == Handle(i, "PostPOST")
CommentPOST(i) == Handle(i, "CommentPOST")
CommentDELETE(i) == Handle(i, "CommentDELETE")
FollowPOST(i) == Handle(i, "FollowPOST")
FollowDELETE(i) == Handle(i, "FollowDELETE")

(***************************************************************************)
(* Likes: POST and DELETE /api/likes with posts being deleted.             *)
(***************************************************************************)
NextLikes ==
  \E i \in Slots :
    \/ Receive(i, {"LikePOST", "LikeDELETE"}, Sessions, IdArgs(PostArgs), {})
    \/ Receive(i, {"PostDELETE"}, Sessions, PostArgs, {})
    \/ LikePOST(i)
    \/ LikeDELETE(i)
    \/ PostDELETE(i)

SpecLikes == Init /\ [][NextLikes]_vars

(***************************************************************************)
(* Follows: POST and DELETE /api/follows.                                  *)
(***************************************************************************)
FollowUsers == 1..(MaxUsers + 1)
\* the sessions that send requests; the last one has no users row
FollowSessions == (0..MaxUsers) \cup {MaxUsers + 2}

NextFollows ==
  \E i \in Slots :
    \/ Receive(i, {"FollowPOST", "FollowDELETE"}, FollowSessions,
               IdArgs(UserArgs), {})
    \/ FollowPOST(i)
    \/ FollowDELETE(i)

\* one more user has a row, and follows the first user since earlier
InitFollows ==
  /\ users = SyncedUsers(MaxUsers + 1)
  /\ posts = SeedPosts(MaxPosts)
  /\ likes = EmptyBag
  /\ comments = {}
  /\ follows = {[id |-> 1, follower_id |-> UserIdOf(MaxUsers + 1),
                 following_id |-> UserIdOf(1)]}
  /\ storage = {x.image : x \in {y \in SeedPosts(MaxPosts) : y.image # 0}}
  /\ nextCommentId = 1
  /\ nextFollowId = 2
  /\ nextPostId = MaxPosts + 1
  /\ nextObjectId = MaxPosts + 1
  /\ reqs = [i \in Slots |-> IdleReq]
  /\ pager = IdlePager
  /\ IdleUi
  /\ probe = NoProbe

SpecFollows == InitFollows /\ [][NextFollows]_vars

(***************************************************************************)
(* Concurrent POST /api/follows: every slot sends one request, of a user   *)
(* with a row for another user or for themselves, and no row is deleted.   *)
(***************************************************************************)
NextFollowRace ==
  \E i \in Slots :
    \/ /\ reqs[i].pc = "idle"
       /\ Receive(i, {"FollowPOST"}, ValidSessions,
                  {UserIdOf(c) : c \in ValidSessions}, {})
    \/ FollowPOST(i)

SpecFollowRace == InitFollows /\ [][NextFollowRace]_vars

(***************************************************************************)
(* Comments: POST /api/comments for the first post or for a post that does *)
(* not exist, and DELETE /api/comments.                                    *)
(***************************************************************************)
NextComments ==
  \E i \in Slots :
    \/ Receive(i, {"CommentPOST"}, Sessions, IdArgs({1, MaxPosts + 1}),
               Contents)
    \/ Receive(i, {"CommentDELETE"}, Sessions, IdArgs(CommentArgs), {})
    \/ CommentPOST(i)
    \/ CommentDELETE(i)

SpecComments == Init /\ [][NextComments]_vars

(***************************************************************************)
(* Cascade: the first post being liked, commented and deleted by users     *)
(* that have a row.                                                        *)
(***************************************************************************)
NextCascade ==
  \E i \in Slots :
    \/ Receive(i, {"LikePOST", "CommentPOST", "PostDELETE"}, ValidSessions,
               {1}, PlainContents)
    \/ LikePOST(i)
    \/ CommentPOST(i)
    \/ PostDELETE(i)

SpecCascade == Init /\ [][NextCascade]_vars

(***************************************************************************)
(* Posts: POST /api/posts and DELETE /api/posts/[postId] of a seeded post  *)
(* or of the first post that was created.                                  *)
(***************************************************************************)
NextPosts ==
  \E i \in Slots :
    \/ Receive(i, {"PostPOST"}, 0..MaxUsers, {Missing}, SentForms)
    \/ Receive(i, {"PostDELETE"}, ValidSessions, {1, MaxPosts + 1}, {})
    \/ PostPOST(i)
    \/ PostDELETE(i)

SpecPosts == Init /\ [][NextPosts]_vars

(***************************************************************************)
(* DELETE /api/posts/[postId] of the seeded posts, with and without an     *)
(* object of the bucket behind their image_url.                            *)
(***************************************************************************)
NextRemove ==
  \E i \in Slots :
    \/ Receive(i, {"PostDELETE"}, ValidSessions, PostArgs, {})
    \/ PostDELETE(i)

SpecRemove == Init /\ [][NextRemove]_vars

\* POST /api/posts alone
NextCreate ==
  \E i \in Slots :
    \/ Receive(i, {"PostPOST"}, {1, MaxUsers + 1}, {Missing}, SentForms)
    \/ PostPOST(i)

SpecCreate == Init /\ [][NextCreate]_vars

(***************************************************************************)
(* Deletions: the four DELETE handlers over a database in which every user *)
(* likes every post, has commented the first post and follows every other  *)
(* user.                                                                   *)
(***************************************************************************)
InitOwners ==
  /\ users = SyncedUsers(MaxUsers)
  /\ posts = SeedPosts(MaxPosts)
  /\ likes = SetToBag({<<x.id, u.id>> : x \in SeedPosts(MaxPosts),
                                        u \in SyncedUsers(MaxUsers)})
  /\ comments = {[id |-> c, post_id |-> 1, user_id |-> UserIdOf(c),
                  content |-> <<"a">>] : c \in 1..MaxUsers}
  /\ follows = {[id |-> 10 * a + b, follower_id |-> UserIdOf(a),
                 following_id |-> UserIdOf(b)] :
                  <<a, b>> \in {y \in (1..MaxUsers) \X (1..MaxUsers) :
                                  y[1] # y[2]}}
  /\ storage = {x.image : x \in {y \in SeedPosts(MaxPosts) : y.image # 0}}
  /\ nextCommentId = MaxUsers + 1
  /\ nextFollowId = 10 * MaxUsers + MaxUsers + 1
  /\ nextPostId = MaxPosts + 1
  /\ nextObjectId = MaxPosts + 1
  /\ reqs = [i \in Slots |-> IdleReq]
  /\ pager = IdlePager
  /\ IdleUi
  /\ probe = NoProbe

NextOwners ==
  \E i \in Slots :
    \/ Receive(i, {"LikeDELETE", "PostDELETE"}, ValidSessions, {1}, {})
    \/ Receive(i, {"CommentDELETE"}, ValidSessions, 1..MaxUsers, {})
    \/ Receive(i, {"FollowDELETE"}, ValidSessions,
               {UserIdOf(c) : c \in 1..MaxUsers}, {})
    \/ LikeDELETE(i)
    \/ PostDELETE(i)
    \/ CommentDELETE(i)
    \/ FollowDELETE(i)

SpecOwners == InitOwners /\ [][NextOwners]_vars

(***************************************************************************)
(* Identity: requests of signed-in users with and without a users row.     *)
(***************************************************************************)
InitIdentity ==
  /\ InitDB(1, 1)
  /\ reqs = [i \in Slots |-> IdleReq]
  /\ pager = IdlePager
  /\ IdleUi
  /\ probe = NoProbe

NextIdentity ==
  \E i \in Slots :
    \/ Receive(i, {"UsersMeGET", "SyncUser"}, Sessions, {Missing}, {})
    \/ Receive(i, {"LikePOST"}, Sessions, {1}, {})
    \/ LikePOST(i)

SpecIdentity == InitIdentity /\ [][NextIdentity]_vars

(***************************************************************************)
(* Requests without a session, of every handler that asks for one, among   *)
(* requests of a signed-in user that change rows and stored objects.       *)
(***************************************************************************)
AuthOps == {"LikePOST", "LikeDELETE", "PostPOST", "PostDELETE",
            "CommentPOST", "CommentDELETE", "FollowPOST", "FollowDELETE"}

\* the bodies a request of op can carry
BodiesOf(op) ==
  IF op = "PostPOST" THEN SentForms
  ELSE IF op = "CommentPOST" THEN Contents
  ELSE {NoContent}

NextUnauth ==
  \E i \in Slots :
    \/ Receive(i, AuthOps \ {"PostPOST"}, {NoSession},
               IdArgs({1, UserIdOf(1)}), {NoContent} \cup PlainContents)
    \/ Receive(i, {"PostPOST"}, {NoSession}, {Missing}, SentForms)
    \/ Receive(i, {"LikePOST"}, {1}, {1}, {})
    \/ Receive(i, {"PostPOST"}, {1}, {Missing}, SentForms)
    \/ LikePOST(i)
    \/ PostPOST(i)

SpecUnauth == Init /\ [][NextUnauth]_vars

(***************************************************************************)
(* Pagination: a client that loads the feed page by page (loadPosts of     *)
(* PostFeed), over a fixed set of posts.                                   *)
(***************************************************************************)
Ids(data) == [k \in 1..Len(data) |-> data[k].id]

\* loadPosts(offset, append): one page is fetched and appended
PageFetch ==
  /\ pager.hasMore
  /\ ~pager.error
  /\ LET res == GetPosts(DB, pager.clerk, pager.limit, pager.offset,
                         pager.userId)
     IN pager' =
          IF res.status # 200
          THEN [pager EXCEPT !.error = TRUE, !.fetches = @ + 1]
          ELSE [pager EXCEPT !.ids = @ \o Ids(res.data),
                             !.hasMore = res.has_more,
                             !.offset = @ + Len(res.data),
                             !.fetches = @ + 1]
  /\ UNCHANGED <<dbVars, reqs, probe, uiVars>>

PageLimits == {FEED_LIMIT} \cup (1..MaxLimit)
Filters == {NoFilter} \cup {UserIdOf(c) : c \in 1..MaxUsers}

InitPage ==
  /\ \E n \in 0..MaxPagePosts : InitDB(MaxUsers, n)
  /\ reqs = [i \in Slots |-> IdleReq]
  /\ \E c \in {NoSession, 1, MaxUsers + 1}, l \in PageLimits, f \in Filters :
       pager = [IdlePager EXCEPT !.clerk = c, !.limit = l, !.userId = f]
  /\ probe = NoProbe
  /\ IdleUi

NextPage == PageFetch

SpecPage == InitPage /\ [][NextPage]_vars

(***************************************************************************)
(* Single calls of GET /api/posts with any limit and offset.               *)
(***************************************************************************)
LimitParams == {AbsentParam} \cup (0..MaxLimit)
OffsetParams == {AbsentParam} \cup (0..MaxOffset)

\* the call drawn by the initial state is answered
PostsGET ==
  /\ probe.status = 0
  /\ probe.clerk # AbsentParam
  /\ LET res == GetPosts(DB, probe.clerk, probe.limit, probe.offset,
                         probe.userId)
     IN probe' = [probe EXCEPT !.status = res.status,
                               !.ids = Ids(res.data),
                               !.has_more = res.has_more,
                               !.next_offset = res.next_offset]
  /\ UNCHANGED <<dbVars, reqs, pager, uiVars>>

InitProbe ==
  /\ \E n \in 0..MaxProbePosts : InitDB(MaxUsers, n)
  /\ reqs = [i \in Slots |-> IdleReq]
  /\ pager = IdlePager
  /\ IdleUi
  /\ \E c \in Sessions, l \in LimitParams, o \in OffsetParams, f \in Filters :
       probe = [NoProbe EXCEPT !.clerk = c, !.limit = l, !.offset = o,
                               !.userId = f]

NextProbe == PostsGET

SpecProbe == InitProbe /\ [][NextProbe]_vars

(***************************************************************************)
(* Single calls of GET /api/posts with limits at and around the default    *)
(* and the cap (100 is the limit the profile grid asks for), over tables   *)
(* with fewer and with more posts than the cap.                            *)
(***************************************************************************)
GRID_LIMIT == 100
CapLimits == {AbsentParam, 0, 1, DEFAULT_LIMIT, LIMIT_CAP - 1, LIMIT_CAP,
              LIMIT_CAP + 1, GRID_LIMIT}
CapOffsets == {AbsentParam, 0, 1}
CapFilters == {NoFilter, UserIdOf(1)}
CapPostCounts == {0, DEFAULT_LIMIT, DEFAULT_LIMIT + 1, LIMIT_CAP, MaxCapPosts}

InitCap ==
  /\ \E n \in CapPostCounts : InitDB(MaxUsers, n)
  /\ reqs = [i \in Slots |-> IdleReq]
  /\ pager = IdlePager
  /\ IdleUi
  /\ \E c \in {1}, l \in CapLimits, o \in CapOffsets, f \in CapFilters :
       probe = [NoProbe EXCEPT !.clerk = c, !.limit = l, !.offset = o,
                               !.userId = f]

SpecCap == InitCap /\ [][NextProbe]_vars

(***************************************************************************)
(* LikeButton: the button of one user for one post.  Its fields are the    *)
(* component's state (liked, likesCount, isAnimating, isLoading), the      *)
(* locals of the running handleClick (previousLiked, previousCount,        *)
(* newLiked, newCount), the request it sent (req) and, as history, how the *)
(* last handleClick ended (outcome) and the calls of onLikeChange          *)
(* (changes).                                                              *)
(***************************************************************************)
SetDB(d) ==
  /\ users' = d.users
  /\ posts' = d.posts
  /\ likes' = d.likes
  /\ comments' = d.comments
  /\ follows' = d.follows
  /\ storage' = d.storage
  /\ nextCommentId' = d.nextCommentId
  /\ nextFollowId' = d.nextFollowId
  /\ nextPostId' = d.nextPostId
  /\ nextObjectId' = d.nextObjectId

\* mutant: every answer is taken as a success
ResponseOk_Always(status) == TRUE

\* response.ok
ResponseOk(status) == status \in 200..299

\* useState(initialLiked), useState(initialLikesCount): the props are the
\* values of an answer of the server for this user and post
LikeMount(c, p) ==
  /\ likeButton.pc = "unmounted"
  /\ \E u \in {x \in users : x.clerk_id = c} :
       likeButton' =
         [NoLikeButton EXCEPT
            !.pc = "idle", !.clerk = c, !.postId = p,
            !.liked = BagIn(<<p, u.id>>, likes),
            !.likesCount = BagCardinality(
               [k \in {e \in DOMAIN likes : e[1] = p} |-> likes[k]])]
  /\ UNCHANGED <<dbVars, reqs, pager, probe, followButton, feed, modal>>

\* handleClick up to the fetch
LikeClick ==
  /\ likeButton.pc = "idle"
  /\ ~(likeButton.isLoading \/ likeButton.isAnimating)
  /\ likeButton.clicks < MaxClicks
  /\ LET newLiked == ~likeButton.liked
         newCount == IF newLiked THEN likeButton.likesCount + 1
                     ELSE likeButton.likesCount - 1
     IN likeButton' =
          [likeButton EXCEPT
             !.previousLiked = likeButton.liked,
             !.previousCount = likeButton.likesCount,
             !.newLiked = newLiked, !.newCount = newCount,
             !.liked = newLiked, !.likesCount = newCount,
             !.isAnimating = TRUE, !.isLoading = TRUE,
             !.req = NewReq(IF newLiked THEN "LikePOST" ELSE "LikeDELETE",
                            likeButton.clerk, likeButton.postId, NoContent),
             !.pc = "waiting", !.outcome = "none", !.clicks = @ + 1]
  /\ UNCHANGED <<dbVars, reqs, pager, probe, followButton, feed, modal>>

\* setTimeout(() => setIsAnimating(false), 150)
LikeAnimationEnd ==
  /\ likeButton.isAnimating
  /\ likeButton' = [likeButton EXCEPT !.isAnimating = FALSE]
  /\ UNCHANGED <<dbVars, reqs, pager, probe, followButton, feed, modal>>

\* the server handles the request of the button, one statement at a time
LikeServe ==
  /\ likeButton.pc = "waiting"
  /\ likeButton.req.pc # "done"
  /\ \E o \in Step(DB, likeButton.req) :
       /\ SetDB(o.db)
       /\ likeButton' = [likeButton EXCEPT !.req = o.r]
  /\ UNCHANGED <<reqs, pager, probe, followButton, feed, modal>>

\* the rest of handleClick once the answer has arrived
LikeResponse ==
  /\ likeButton.pc = "waiting"
  /\ likeButton.req.pc = "done"
  /\ likeButton' =
       IF ~ResponseOk(likeButton.req.status)
       THEN [likeButton EXCEPT
               !.liked = likeButton.previousLiked,
               !.likesCount = likeButton.previousCount,
               !.isLoading = FALSE, !.pc = "idle", !.outcome = "failed"]
       ELSE [likeButton EXCEPT
               !.changes = Append(@, <<likeButton.newLiked,
                                       likeButton.newCount>>),
               !.isLoading = FALSE, !.pc = "idle", !.outcome = "ok"]
  /\ UNCHANGED <<dbVars, reqs, pager, probe, followButton, feed, modal>>

\* fetch throws: the request did not reach the server, or its answer did
\* not reach the client
LikeThrow ==
  /\ likeButton.pc = "waiting"
  /\ likeButton.req.pc \in {"start", "done"}
  /\ likeButton' =
       [likeButton EXCEPT
          !.liked = likeButton.previousLiked,
          !.likesCount = likeButton.previousCount,
          !.isLoading = FALSE, !.pc = "idle", !.outcome = "threw"]
  /\ UNCHANGED <<dbVars, reqs, pager, probe, followButton, feed, modal>>

\* the button of the first user for the first post, and requests of another
\* session of the same user and of another user for that post
NextLikeButton ==
  \/ LikeMount(1, 1)
  \/ LikeClick
  \/ LikeAnimationEnd
  \/ LikeServe
  \/ LikeResponse
  \/ LikeThrow
  \/ \E i \in Slots :
       \/ Receive(i, {"LikePOST", "LikeDELETE"}, ValidSessions, {1}, {})
       \/ LikePOST(i)
       \/ LikeDELETE(i)

SpecLikeButton == Init /\ [][NextLikeButton]_vars

(***************************************************************************)
(* FollowButton: the button of one user for one other user, with the       *)
(* component's state (isFollowing, followersCount, isLoading), the locals  *)
(* of the running handleToggleFollow and the calls of onFollowChange.      *)
(***************************************************************************)
FollowersCount(d, u) == Cardinality({f \in d.follows : f.following_id = u})

\* useState(initialIsFollowing), useState(initialFollowersCount)
FollowMount(c, t) ==
  /\ followButton.pc = "unmounted"
  /\ \E u \in {x \in users : x.clerk_id = c} :
       followButton' =
         [NoFollowButton EXCEPT
            !.pc = "idle", !.clerk = c, !.targetUserId = t,
            !.isFollowing = FollowRows(DB, u.id, t) # {},
            !.followersCount = FollowersCount(DB, t)]
  /\ UNCHANGED <<dbVars, reqs, pager, probe, likeButton, feed, modal>>

\* handleToggleFollow up to the fetch
FollowClick ==
  /\ followButton.pc = "idle"
  /\ ~followButton.isLoading
  /\ followButton.clicks < MaxClicks
  /\ followButton' =
       [followButton EXCEPT
          !.isLoading = TRUE,
          !.previousState = followButton.isFollowing,
          !.previousCount = followButton.followersCount,
          !.req = NewReq(IF followButton.isFollowing THEN "FollowDELETE"
                         ELSE "FollowPOST",
                         followButton.clerk, followButton.targetUserId,
                         NoContent),
          !.pc = "waiting", !.outcome = "none", !.clicks = @ + 1]
  /\ UNCHANGED <<dbVars, reqs, pager, probe, likeButton, feed, modal>>

\* the server handles the request of the button, one statement at a time
FollowServe ==
  /\ followButton.pc = "waiting"
  /\ followButton.req.pc # "done"
  /\ \E o \in Step(DB, followButton.req) :
       /\ SetDB(o.db)
       /\ followButton' = [followButton EXCEPT !.req = o.r]
  /\ UNCHANGED <<reqs, pager, probe, likeButton, feed, modal>>

\* the rest of handleToggleFollow once the answer has arrived
FollowResponse ==
  /\ followButton.pc = "waiting"
  /\ followButton.req.pc = "done"
  /\ followButton' =
       IF ~ResponseOk(followButton.req.status)
       THEN [followButton EXCEPT
               !.isFollowing = followButton.previousState,
               !.followersCount = followButton.previousCount,
               !.isLoading = FALSE, !.pc = "idle", !.outcome = "failed"]
       ELSE LET now == ~followButton.isFollowing
                newCount ==
                  IF now THEN followButton.followersCount + 1
                  ELSE IF followButton.followersCount - 1 > 0
                       THEN followButton.followersCount - 1 ELSE 0
            IN [followButton EXCEPT
                  !.isFollowing = now, !.followersCount = newCount,
                  !.changes = Append(@, <<now, newCount>>),
                  !.isLoading = FALSE, !.pc = "idle", !.outcome = "ok"]
  /\ UNCHANGED <<dbVars, reqs, pager, probe, likeButton, feed, modal>>

\* fetch throws: the request did not reach the server, or its answer did
\* not reach the client
FollowThrow ==
  /\ followButton.pc = "waiting"
  /\ followButton.req.pc \in {"start", "done"}
  /\ followButton' =
       [followButton EXCEPT
          !.isFollowing = followButton.previousState,
          !.followersCount = followButton.previousCount,
          !.isLoading = FALSE, !.pc = "idle", !.outcome = "threw"]
  /\ UNCHANGED <<dbVars, reqs, pager, probe, likeButton, feed, modal>>

\* the button of the first user for the second user, and requests of another
\* session of the first user for the same target
NextFollowButton ==
  \/ FollowMount(1, UserIdOf(2))
  \/ FollowClick
  \/ FollowServe
  \/ FollowResponse
  \/ FollowThrow
  \/ \E i \in Slots :
       \/ Receive(i, {"FollowPOST", "FollowDELETE"}, {1}, {UserIdOf(2)}, {})
       \/ FollowPOST(i)
       \/ FollowDELETE(i)

SpecFollowButton == InitFollows /\ [][NextFollowButton]_vars

(***************************************************************************)
(* PostFeed: the initial load, the infinite scroll and the retry button.   *)
(* A state update, the render that follows it and the effects of that      *)
(* render are one step.                                                    *)
(***************************************************************************)
\* loadPosts(currentOffset, append) up to the fetch
LoadPosts(f, currentOffset, append) ==
  [(IF append THEN [f EXCEPT !.isLoadingMore = TRUE]
    ELSE [f EXCEPT !.isLoading = TRUE, !.error = FALSE])
   EXCEPT !.inflight = @ \cup {[offset |-> currentOffset,
                                append |-> append, n |-> f.fetches + 1]},
          !.fetches = @ + 1]

\* the sentinel is part of the rendered list
SentinelShown(f) ==
  ~f.isLoading /\ ~f.error /\ f.posts # <<>> /\ f.hasMore

\* mutant: the observer stays installed while more posts are loaded
ObserverInstalled_WhileLoadingMore(f) ==
  f.hasMore /\ ~f.isLoading /\ SentinelShown(f)

\* the infinite-scroll effect has an observer on the sentinel
ObserverInstalled(f) ==
  ~(~f.hasMore \/ f.isLoading \/ f.isLoadingMore) /\ SentinelShown(f)

\* Clerk has loaded the user: the initial-load effect calls loadPosts(0)
FeedStart(c) ==
  /\ ~feed.isLoaded
  /\ feed' = LoadPosts([feed EXCEPT !.isLoaded = TRUE, !.clerk = c],
                       0, FALSE)
  /\ UNCHANGED <<dbVars, reqs, pager, probe, likeButton, followButton, modal>>

\* the sentinel intersects the viewport: the observer calls
\* loadPosts(offset, true)
FeedIntersect ==
  /\ ObserverInstalled(feed)
  /\ feed' = LoadPosts(feed, feed.offset, TRUE)
  /\ UNCHANGED <<dbVars, reqs, pager, probe, likeButton, followButton, modal>>

\* the retry button of the error view
FeedRetry ==
  /\ feed.isLoaded /\ ~feed.isLoading /\ feed.error
  /\ feed.fetches < MaxFetches
  /\ feed' = LoadPosts(feed, 0, FALSE)
  /\ UNCHANGED <<dbVars, reqs, pager, probe, likeButton, followButton, modal>>

\* mutant: setHasMore(data.has_more) is left out
FeedLoaded_KeepHasMore(f, q, res) ==
  [f EXCEPT !.posts = IF q.append THEN @ \o Ids(res.data)
                      ELSE Ids(res.data),
            !.offset = q.offset + Len(res.data),
            !.isLoading = FALSE, !.isLoadingMore = FALSE,
            !.inflight = @ \ {q}]

\* the rest of loadPosts after an answer that is OK
FeedLoaded(f, q, res) ==
  [f EXCEPT !.posts = IF q.append THEN @ \o Ids(res.data)
                      ELSE Ids(res.data),
            !.hasMore = res.has_more,
            !.offset = q.offset + Len(res.data),
            !.isLoading = FALSE, !.isLoadingMore = FALSE,
            !.inflight = @ \ {q}]

\* the rest of loadPosts after an answer that is not OK or a thrown fetch
FeedFailed(f, q) ==
  [f EXCEPT !.error = TRUE, !.isLoading = FALSE, !.isLoadingMore = FALSE,
            !.inflight = @ \ {q}]

\* GET /api/posts answers a fetch of the feed
FeedAnswer ==
  /\ \E q \in feed.inflight :
       \E res \in {GetPosts(DB, feed.clerk, FEED_LIMIT, q.offset,
                            feed.userId)} :
         feed' = IF ResponseOk(res.status) THEN FeedLoaded(feed, q, res)
                 ELSE FeedFailed(feed, q)
  /\ UNCHANGED <<dbVars, reqs, pager, probe, likeButton, followButton, modal>>

\* a fetch of the feed throws
FeedThrow ==
  /\ \E q \in feed.inflight : feed' = FeedFailed(feed, q)
  /\ UNCHANGED <<dbVars, reqs, pager, probe, likeButton, followButton, modal>>

\* another user creates a post: POST /api/posts handled to its end
OtherCreates ==
  /\ nextPostId <= 2 * FEED_LIMIT + MaxNewPosts
  /\ \E o \in Outcomes(DB, NewReq("PostPOST", MaxUsers, Missing,
                                   Form([present |-> TRUE,
                                         size |-> MAX_FILE_SIZE,
                                         type |-> "image/png"], NoCaption))) :
       /\ o.r.status = 200
       /\ SetDB(o.db)
  /\ UNCHANGED <<reqs, pager, probe, uiVars>>

\* the owner of a post deletes it: DELETE /api/posts/[postId] handled to
\* its end
OtherDeletes ==
  /\ \E x \in {y \in posts : y.id \in {1, FEED_LIMIT}}, c \in ValidSessions :
       \E o \in Outcomes(DB, NewReq("PostDELETE", c, x.id, NoContent)) :
         /\ o.r.status = 200
         /\ SetDB(o.db)
  /\ UNCHANGED <<reqs, pager, probe, uiVars>>

FeedPostCounts == {0, FEED_LIMIT - 1, FEED_LIMIT, FEED_LIMIT + 1,
                   2 * FEED_LIMIT}

InitFeed ==
  /\ \E n \in FeedPostCounts : InitDB(MaxUsers, n)
  /\ reqs = [i \in Slots |-> IdleReq]
  /\ pager = IdlePager
  /\ probe = NoProbe
  /\ IdleUi

NextFeed ==
  \/ FeedStart(1)
  \/ FeedIntersect
  \/ FeedRetry
  \/ FeedAnswer
  \/ FeedThrow
  \/ OtherCreates
  \/ OtherDeletes

SpecFeed == InitFeed /\ [][NextFeed]_vars

(***************************************************************************)
(* The feed over a fixed set of posts with every fetch answered: Clerk     *)
(* finishes loading, every request gets its answer, and the sentinel       *)
(* intersects the viewport whenever its observer is installed.             *)
(***************************************************************************)
InitFeedLive ==
  /\ \E n \in 0..MaxLivePosts : InitDB(MaxUsers, n)
  /\ reqs = [i \in Slots |-> IdleReq]
  /\ pager = IdlePager
  /\ probe = NoProbe
  /\ IdleUi

\* the observer's callback, for a feed that has not fetched MaxFetches times
FeedIntersectCounted ==
  /\ feed.fetches < MaxFetches
  /\ FeedIntersect

NextFeedLive ==
  \/ \E c \in ValidSessions : FeedStart(c)
  \/ FeedIntersectCounted
  \/ FeedAnswer

SpecFeedLive ==
  /\ InitFeedLive
  /\ [][NextFeedLive]_vars
  /\ WF_vars(\E c \in ValidSessions : FeedStart(c))
  /\ WF_vars(FeedIntersectCounted)
  /\ WF_vars(FeedAnswer)

(***************************************************************************)
(* PostModal: the selection of a post, the two loading effects, and the    *)
(* comment callbacks.  A state update, the render that follows it and the  *)
(* effects of that render are one step.                                    *)
(***************************************************************************)
\* the effects of a render with a new postId
Select(m, p) ==
  IF p = 0
  THEN [m EXCEPT !.postId = 0, !.post = NoPost, !.comments = <<>>,
                 !.error = FALSE]
  ELSE [m EXCEPT
          !.postId = p, !.isLoading = TRUE, !.error = FALSE,
          !.isLoadingComments = TRUE,
          !.inflight = @ \cup {[kind |-> "post", postId |-> p,
                                n |-> m.fetches + 1],
                               [kind |-> "comments", postId |-> p,
                                n |-> m.fetches + 1]},
          !.fetches = @ + 1]

\* the list view of the modal is rendered
ModalShown(m) == m.postId # 0 /\ ~m.isLoading /\ ~m.error /\ m.post # NoPost

\* handlePostClick of the feed
ModalOpen(c, p) ==
  /\ modal.postId = 0
  /\ modal.fetches < MaxSelections
  /\ modal' = Select([modal EXCEPT !.clerk = c], p)
  /\ UNCHANGED <<dbVars, reqs, pager, probe, likeButton, followButton, feed>>

\* handlePrevious / handleNext over the posts of the feed, newest first
ModalNavigate ==
  /\ modal.postId # 0
  /\ modal.fetches < MaxSelections
  /\ \E p \in {modal.postId - 1, modal.postId + 1} \cap PostArgs :
       modal' = Select(modal, p)
  /\ UNCHANGED <<dbVars, reqs, pager, probe, likeButton, followButton, feed>>

\* handleCloseModal
ModalClose ==
  /\ modal.postId # 0
  /\ modal' = Select(modal, 0)
  /\ UNCHANGED <<dbVars, reqs, pager, probe, likeButton, followButton, feed>>

\* the rest of loadPost after the answer of GET /api/posts/[postId]
ModalPostAnswer ==
  /\ \E q \in {x \in modal.inflight : x.kind = "post"} :
       LET res == GetPost(DB, modal.clerk, q.postId) IN
       modal' =
         IF ResponseOk(res.status)
         THEN [modal EXCEPT
                 !.post = [id |-> q.postId,
                           comments_count |-> res.comments_count],
                 !.isLoading = FALSE, !.inflight = @ \ {q},
                 !.fetched = res.comments_count,
                 !.submitted = 0, !.deleted = 0, !.reported = AbsentParam]
         ELSE [modal EXCEPT !.error = TRUE, !.isLoading = FALSE,
                            !.inflight = @ \ {q}]
  /\ UNCHANGED <<dbVars, reqs, pager, probe, likeButton, followButton, feed>>

COMMENTS_LIMIT == 50

\* the rest of loadComments after the answer of GET /api/comments
ModalCommentsAnswer ==
  /\ \E q \in {x \in modal.inflight : x.kind = "comments"} :
       LET res == GetComments(DB, q.postId, COMMENTS_LIMIT, 0) IN
       modal' =
         [modal EXCEPT
            !.comments = IF ResponseOk(res.status)
                         THEN [k \in 1..Len(res.comments) |->
                                 [id |-> res.comments[k].id,
                                  post_id |-> res.comments[k].post_id]]
                         ELSE @,
            !.isLoadingComments = FALSE, !.inflight = @ \ {q}]
  /\ UNCHANGED <<dbVars, reqs, pager, probe, likeButton, followButton, feed>>

\* a fetch of the modal throws
ModalThrow ==
  /\ \E q \in modal.inflight :
       modal' =
         IF q.kind = "post"
         THEN [modal EXCEPT !.error = TRUE, !.isLoading = FALSE,
                            !.inflight = @ \ {q}]
         ELSE [modal EXCEPT !.isLoadingComments = FALSE,
                            !.inflight = @ \ {q}]
  /\ UNCHANGED <<dbVars, reqs, pager, probe, likeButton, followButton, feed>>

\* CommentForm.handleSubmit up to the fetch, with the onSubmit of the
\* current render
CommentSubmitClick ==
  /\ ModalShown(modal)
  /\ ~modal.submit.active
  /\ nextCommentId <= MaxUsers + MaxComments
  /\ modal' = [modal EXCEPT !.submit = [active |-> TRUE, post |-> modal.post,
                                        arg |-> modal.post.id]]
  /\ UNCHANGED <<dbVars, reqs, pager, probe, likeButton, followButton, feed>>

\* post.comments_count of the render whose callback is called
CountAtCall(m, call) == call.post.comments_count

\* handleCommentSubmit(newComment)
HandleCommentSubmit(m, call, id) ==
  LET added == IF \E k \in 1..Len(m.comments) : m.comments[k].id = id
               THEN m.comments
               ELSE Append(m.comments, [id |-> id, post_id |-> call.arg])
      newCount == CountAtCall(m, call) + 1
  IN IF call.post = NoPost THEN [m EXCEPT !.comments = added]
     ELSE [m EXCEPT !.comments = added,
                    !.post = IF @ = NoPost THEN NoPost
                             ELSE [@ EXCEPT !.comments_count = newCount],
                    !.reported = newCount]

\* the rest of CommentForm.handleSubmit after the answer of POST
\* /api/comments, which is handled to its end
CommentSubmitAnswer ==
  /\ modal.submit.active
  /\ \E o \in Outcomes(DB, NewReq("CommentPOST", modal.clerk,
                                   modal.submit.arg, CHOOSE b \in PlainContents : TRUE)) :
       /\ SetDB(o.db)
       /\ modal' =
            IF ResponseOk(o.r.status)
            THEN [HandleCommentSubmit(modal, modal.submit, o.r.row)
                    EXCEPT !.submit = NoCall, !.submitted = @ + 1]
            ELSE [modal EXCEPT !.submit = NoCall]
  /\ UNCHANGED <<reqs, pager, probe, likeButton, followButton, feed>>

\* CommentList.handleDelete up to the fetch, with the onCommentDelete of
\* the current render, for a comment of the list
CommentDeleteClick ==
  /\ ModalShown(modal)
  /\ ~modal.del.active
  /\ \E k \in 1..Len(modal.comments) :
       modal' = [modal EXCEPT !.del = [active |-> TRUE, post |-> modal.post,
                                      arg |-> modal.comments[k].id]]
  /\ UNCHANGED <<dbVars, reqs, pager, probe, likeButton, followButton, feed>>

\* handleCommentDelete(commentId)
HandleCommentDelete(m, call) ==
  LET kept == SelectSeq(m.comments, LAMBDA c : c.id # call.arg)
      newCount == IF CountAtCall(m, call) - 1 > 0
                  THEN CountAtCall(m, call) - 1 ELSE 0
  IN IF call.post = NoPost THEN [m EXCEPT !.comments = kept]
     ELSE [m EXCEPT !.comments = kept,
                    !.post = IF @ = NoPost THEN NoPost
                             ELSE [@ EXCEPT !.comments_count = newCount],
                    !.reported = newCount]

\* the rest of CommentList.handleDelete after the answer of DELETE
\* /api/comments, which is handled to its end
CommentDeleteAnswer ==
  /\ modal.del.active
  /\ \E o \in Outcomes(DB, NewReq("CommentDELETE", modal.clerk,
                                   modal.del.arg, NoContent)) :
       /\ SetDB(o.db)
       /\ modal' =
            IF ResponseOk(o.r.status)
            THEN [HandleCommentDelete(modal, modal.del)
                    EXCEPT !.del = NoCall, !.deleted = @ + 1]
            ELSE [modal EXCEPT !.del = NoCall]
  /\ UNCHANGED <<reqs, pager, probe, likeButton, followButton, feed>>

\* the modal of the first user, opened once on the first post
NextModalComments ==
  \/ /\ modal.fetches = 0
     /\ ModalOpen(1, 1)
  \/ ModalPostAnswer
  \/ ModalCommentsAnswer
  \/ CommentSubmitClick
  \/ CommentSubmitAnswer
  \/ CommentDeleteClick
  \/ CommentDeleteAnswer

SpecModalComments == InitOwners /\ [][NextModalComments]_vars

\* the modal of the first user: selections, and fetches that succeed or
\* throw
NextModalSelect ==
  \/ \E p \in PostArgs : ModalOpen(1, p)
  \/ ModalNavigate
  \/ ModalClose
  \/ ModalPostAnswer
  \/ ModalCommentsAnswer
  \/ ModalThrow

SpecModalSelect == InitOwners /\ [][NextModalSelect]_vars

(***************************************************************************)
(* Properties.                                                             *)
(***************************************************************************)

\* C1: for every post p and every user u with a users row, whatever way
\* the POST /api/likes requests of u for p interleave, at most one like row
\* (p, u) is stored; an insert made while the row exists is answered 409
\* and adds nothing, and an insert made while it does not exist (and the
\* post does) is answered 200 and stores the one row.
C1_AtMostOneLike ==
  /\ [](\A e \in DOMAIN likes : likes[e] <= 1)
  /\ [][\A i \in Slots :
          (reqs[i].op = "LikePOST" /\ reqs[i].pc = "insert"
             /\ reqs'[i].pc = "done") =>
            LET key == <<reqs[i].arg, reqs[i].uid>> IN
            IF CopiesIn(key, likes) >= 1
            THEN reqs'[i].status = 409 /\ likes' = likes
            ELSE PostExists(DB, reqs[i].arg) =>
                   /\ reqs'[i].status = 200
                   /\ CopiesIn(key, likes') = 1]_vars

\* two requests of the same user for the same post: one answered 200, the
\* other 409, one row stored
C1_Witness ==
  \E i, j \in Slots :
    /\ reqs[i].op = "LikePOST" /\ reqs[i].pc = "done"
    /\ reqs[i].status = 200
    /\ reqs[j].op = "LikePOST" /\ reqs[j].pc = "done"
    /\ reqs[j].status = 409
    /\ reqs[j].arg = reqs[i].arg /\ reqs[j].uid = reqs[i].uid
    /\ CopiesIn(<<reqs[i].arg, reqs[i].uid>>, likes) = 1

\* C2: a POST /api/follows whose following_id is the requester's own
\* internal id is answered 400 at once, and no follow row has
\* follower_id = following_id.
C2_NoSelfFollow ==
  /\ \A i \in Slots :
       (reqs[i].op = "FollowPOST" /\ reqs[i].uid # 0
          /\ reqs[i].arg = reqs[i].uid) =>
         reqs[i].pc = "done" /\ reqs[i].status = 400
  /\ \A f \in follows : f.follower_id # f.following_id

C2_Witness ==
  \E i \in Slots :
    /\ reqs[i].op = "FollowPOST" /\ reqs[i].pc = "done"
    /\ reqs[i].uid # 0 /\ reqs[i].arg = reqs[i].uid
    /\ reqs[i].status = 400
    /\ follows # {}

\* C3: for distinct users A and B with users rows where A does not follow
\* B, POST /api/follows by A for B and then DELETE /api/follows by A for B
\* both answer 200, and afterwards GET /api/users/B reports the
\* followers_count, and GET /api/users/A the following_count, that they
\* reported before the follow.
C3_FollowUnfollowRoundTrip ==
  \A a, b \in FollowUsers :
    (a # b /\ FollowRows(DB, UserIdOf(a), UserIdOf(b)) = {}) =>
      \A o1 \in Outcomes(DB, NewReq("FollowPOST", a, UserIdOf(b),
                                    NoContent)) :
        /\ o1.r.status = 200
        /\ GetUser(o1.db, a, UserIdOf(b)).followers_count =
             GetUser(DB, a, UserIdOf(b)).followers_count + 1
        /\ \A o2 \in Outcomes(o1.db, NewReq("FollowDELETE", a, UserIdOf(b),
                                            NoContent)) :
             /\ o2.r.status = 200
             /\ GetUser(o2.db, a, UserIdOf(b)).status = 200
             /\ GetUser(o2.db, a, UserIdOf(b)).followers_count =
                  GetUser(DB, a, UserIdOf(b)).followers_count
             /\ GetUser(o2.db, a, UserIdOf(a)).following_count =
                  GetUser(DB, a, UserIdOf(a)).following_count

\* a follow and then the unfollow of the row it inserted have been handled
C3_Witness ==
  \E i, j \in Slots :
    /\ reqs[i].op = "FollowPOST" /\ reqs[i].pc = "done"
    /\ reqs[i].status = 200
    /\ reqs[j].op = "FollowDELETE" /\ reqs[j].pc = "done"
    /\ reqs[j].status = 200
    /\ reqs[j].row = reqs[i].row
    /\ reqs[j].uid = reqs[i].uid /\ reqs[j].arg = reqs[i].arg
    /\ FollowRows(DB, reqs[i].uid, reqs[i].arg) = {}
    /\ GetUser(DB, reqs[i].clerk, reqs[i].arg).followers_count > 0

\* C9: DELETE /api/follows by A for B while no follow row (A, B) exists is
\* answered 404 and leaves the follows table as it is; an unfollow that
\* directly follows a successful unfollow of the same user is answered 404.
C9_UnfollowMissing ==
  /\ [](\A a, b \in FollowUsers :
          \A o1 \in Outcomes(DB, NewReq("FollowDELETE", a, UserIdOf(b),
                                        NoContent)) :
            /\ FollowRows(DB, UserIdOf(a), UserIdOf(b)) = {} =>
                 o1.r.status = 404 /\ o1.db = DB
            /\ o1.r.status = 200 =>
                 \A o2 \in Outcomes(o1.db, NewReq("FollowDELETE", a,
                                                  UserIdOf(b), NoContent)) :
                   o2.r.status = 404 /\ o2.db = o1.db)
  /\ [][\A i \in Slots :
          (reqs[i].op = "FollowDELETE" /\ reqs[i].pc = "follow"
             /\ reqs'[i] # reqs[i]
             /\ FollowRows(DB, reqs[i].uid, reqs[i].arg) = {}) =>
            /\ reqs'[i].pc = "done"
            /\ reqs'[i].status = 404
            /\ follows' = follows]_vars

\* an unfollow answered 200 and a later unfollow of the same user by the
\* same requester answered 404
C9_Witness ==
  \E i, j \in Slots :
    /\ reqs[i].op = "FollowDELETE" /\ reqs[i].pc = "done"
    /\ reqs[i].status = 200
    /\ reqs[j].op = "FollowDELETE" /\ reqs[j].pc = "done"
    /\ reqs[j].status = 404
    /\ reqs[j].uid = reqs[i].uid /\ reqs[j].arg = reqs[i].arg
    /\ FollowRows(DB, reqs[i].uid, reqs[i].arg) = {}

\* C4: once DELETE /api/posts/p has answered 200, no like row and no
\* comment row refers to p, GET /api/posts/p answers 404 for every session
\* and GET /api/comments?post_id=p answers an empty list with total 0,
\* whatever rows went with the post and whatever other requests are in
\* flight.
C4_DeleteCascades ==
  \A i \in Slots :
    (reqs[i].op = "PostDELETE" /\ reqs[i].pc = "done"
       /\ reqs[i].status = 200) =>
      LET p == reqs[i].arg IN
      /\ ~PostExists(DB, p)
      /\ \A e \in DOMAIN likes : e[1] # p
      /\ \A c \in comments : c.post_id # p
      /\ \A s \in Sessions : GetPost(DB, s, p).status = 404
      /\ \A l \in LimitParams, o \in OffsetParams :
           GetComments(DB, p, l, o) =
             [status |-> 200, comments |-> <<>>, total |-> 0]

\* a post was deleted together with likes and comments of users other than
\* its owner
C4_Witness ==
  \E i \in Slots :
    /\ reqs[i].op = "PostDELETE" /\ reqs[i].pc = "done"
    /\ reqs[i].status = 200
    /\ reqs[i].cascaded[1] >= 1
    /\ reqs[i].cascaded[2] >= 1
    /\ \E j \in Slots :
         /\ reqs[j].op \in {"LikePOST", "CommentPOST"}
         /\ reqs[j].pc = "done" /\ reqs[j].status = 200
         /\ reqs[j].arg = reqs[i].arg
         /\ reqs[j].uid # reqs[i].uid

\* C8: DELETE /api/comments for a stored comment by a user who is not its
\* author is answered 403 and leaves the comments as they are, also when
\* that user owns the commented post; a comment disappears only by the
\* delete statement of a request of its author.
C8_OnlyAuthorDeletes ==
  [][/\ \A i \in Slots :
          (reqs[i].op = "CommentDELETE" /\ reqs[i].pc = "comment"
             /\ reqs'[i] # reqs[i]) =>
            \A c \in comments :
              (c.id = reqs[i].arg /\ c.user_id # reqs[i].uid) =>
                /\ reqs'[i].pc = "done"
                /\ reqs'[i].status = 403
                /\ comments' = comments
     /\ \A c \in comments \ comments' :
          \E i \in Slots :
            /\ reqs[i].op = "CommentDELETE" /\ reqs[i].pc = "delete"
            /\ reqs[i].arg = c.id
            /\ reqs[i].uid = c.user_id
            /\ reqs'[i].status = 200]_vars

\* the owner of a post was refused the deletion of another user's comment
\* on it, and the comment is still stored
C8_Witness ==
  \E i \in Slots, c \in comments, x \in posts :
    /\ reqs[i].op = "CommentDELETE" /\ reqs[i].pc = "done"
    /\ reqs[i].status = 403
    /\ reqs[i].arg = c.id
    /\ c.user_id # reqs[i].uid
    /\ x.id = c.post_id /\ x.user_id = reqs[i].uid

\* C10: every stored comment has a content that is non-empty and equal to
\* its trimmed form; POST /api/comments with a content that is missing, not
\* a string or empty after trimming is answered 400 and inserts nothing;
\* with any other content it stores the trimmed content under the
\* requester's user id.
C10_TrimmedContent ==
  /\ \A c \in comments : c.content # <<>> /\ Trim(c.content) = c.content
  /\ \A c \in comments :
       ~IsSpace(c.content[1]) /\ ~IsSpace(c.content[Len(c.content)])
  /\ \A s \in ValidSessions, p \in 1..(MaxPosts + 1), b \in Contents :
       \A o \in Outcomes(DB, NewReq("CommentPOST", s, p, b)) :
         IF b.kind # "string" \/ \A k \in 1..Len(b.val) : b.val[k] = " "
         THEN o.r.status = 400 /\ o.db = DB
         ELSE /\ o.r.status \in {200, 404}
              /\ o.r.status = 404 => o.db = DB
              /\ o.r.status = 200 =>
                   \E c \in o.db.comments \ comments :
                     /\ o.db.comments = comments \cup {c}
                     /\ c.post_id = p
                     /\ c.content = Trim(b.val)
                     /\ \E u \in users : u.clerk_id = s /\ u.id = c.user_id

\* a comment is stored, and a request of a user with a row for an existing
\* post was answered 400
C10_Witness ==
  /\ \E i \in Slots, c \in comments :
       /\ reqs[i].op = "CommentPOST" /\ reqs[i].pc = "done"
       /\ reqs[i].status = 200 /\ reqs[i].row = c.id
       /\ c.user_id = reqs[i].uid
  /\ \E j \in Slots :
       /\ reqs[j].op = "CommentPOST" /\ reqs[j].pc = "done"
       /\ reqs[j].status = 400
       /\ reqs[j].clerk \in ValidSessions
       /\ PostExists(DB, reqs[j].arg)

\* C5 as stated: over a fixed set of N posts, fetching pages of size P from
\* offset 0 while has_more is true takes exactly ceil(N/P) fetches and the
\* concatenated ids are the whole created_at-descending ordering.
C5_CeilingPages ==
  (~pager.hasMore /\ ~pager.error) =>
    LET all == OrderByCreatedDesc(
                 {x \in posts : pager.userId = NoFilter
                                  \/ x.user_id = pager.userId})
        n == Len(all)
        size == Min(pager.limit, LIMIT_CAP)
    IN /\ pager.fetches = (n + size - 1) \div size
       /\ pager.ids = [k \in 1..n |-> all[k].id]

\* C5 (amended): over a fixed set of N posts, fetching pages of size P from
\* offset 0 while has_more is true takes exactly floor(N/P) + 1 fetches
\* (ceil(N/P) when P does not divide N, one more when it does, N = 0
\* included), and the concatenated ids are the whole created_at-descending
\* ordering, without a duplicate and without an omission; before the last
\* fetch the ids are a prefix of that ordering.
C5_PagesUntilShortPage ==
  ~pager.error =>
    LET all == OrderByCreatedDesc(
                 {x \in posts : pager.userId = NoFilter
                                  \/ x.user_id = pager.userId})
        n == Len(all)
        size == Min(pager.limit, LIMIT_CAP)
    IN /\ Len(pager.ids) <= n
       /\ pager.ids = [k \in 1..Len(pager.ids) |-> all[k].id]
       /\ pager.offset = Len(pager.ids)
       /\ ~pager.hasMore =>
            /\ pager.fetches = (n \div size) + 1
            /\ Len(pager.ids) = n
            /\ n % size # 0 => pager.fetches = (n + size - 1) \div size

\* two full pages were fetched, and a third fetch found nothing
C5_Witness ==
  /\ ~pager.hasMore /\ ~pager.error
  /\ Len(pager.ids) = 2 * pager.limit
  /\ pager.limit >= 2
  /\ pager.fetches = 3

\* C6: in every answer of GET /api/posts, has_more is true exactly when the
\* number of posts returned equals the effective limit, and next_offset is
\* present exactly when has_more is true, when it is offset + limit.
C6_HasMoreIffFullPage ==
  probe.status = 200 =>
    LET limit == IF probe.limit = AbsentParam THEN 10
                 ELSE Min(probe.limit, 50)
        offset == IF probe.offset = AbsentParam THEN 0 ELSE probe.offset
    IN /\ probe.has_more <=> Len(probe.ids) = limit
       /\ probe.has_more <=> probe.next_offset # AbsentParam
       /\ probe.has_more => probe.next_offset = offset + limit

C6_Witness ==
  /\ probe.status = 200
  /\ probe.has_more
  /\ probe.limit # AbsentParam /\ Len(probe.ids) = probe.limit
  /\ probe.offset > 0
  /\ probe.next_offset = probe.offset + probe.limit

\* C7 as stated: has_more is wrong about whether further rows exist only
\* when the size of the matching result set is an exact multiple of the page
\* size and nothing lies beyond the returned page, and the wrong value is
\* false.
C7_FalseNegativeAtBoundary ==
  probe.status = 200 =>
    LET n == Cardinality({x \in posts : probe.userId = NoFilter
                                          \/ x.user_id = probe.userId})
        limit == IF probe.limit = AbsentParam THEN 10
                 ELSE Min(probe.limit, 50)
        offset == IF probe.offset = AbsentParam THEN 0 ELSE probe.offset
        further == n > offset + Len(probe.ids)
    IN probe.has_more # further =>
         /\ \E k \in 0..n : n = k * limit
         /\ ~further
         /\ probe.has_more = FALSE

\* C7 (amended): has_more is wrong about whether further rows exist only
\* when the returned page is exactly full and nothing lies beyond it (for a
\* page size of at least 1 and an offset that is a multiple of it: when the
\* size of the matching result set is a positive exact multiple of the page
\* size), and the wrong value is true (a false positive); has_more is never
\* false while further rows exist.
C7_FalsePositiveAtBoundary ==
  probe.status = 200 =>
    LET n == Cardinality({x \in posts : probe.userId = NoFilter
                                          \/ x.user_id = probe.userId})
        limit == IF probe.limit = AbsentParam THEN 10
                 ELSE Min(probe.limit, 50)
        offset == IF probe.offset = AbsentParam THEN 0 ELSE probe.offset
        further == n > offset + Len(probe.ids)
    IN /\ probe.has_more # further =>
            /\ Len(probe.ids) = limit
            /\ ~further
            /\ limit >= 1 => n = offset + limit
            /\ (limit >= 1 /\ offset % limit = 0) => (n % limit = 0 /\ n > 0)
            /\ probe.has_more = TRUE
       /\ further => probe.has_more

\* the last page is full: has_more is true and nothing lies beyond
C7_Witness ==
  /\ probe.status = 200
  /\ probe.has_more
  /\ Len(probe.ids) >= 2
  /\ Cardinality({x \in posts : probe.userId = NoFilter
                                  \/ x.user_id = probe.userId})
       = (IF probe.offset = AbsentParam THEN 0 ELSE probe.offset)
           + Len(probe.ids)

\* C11: POST /api/posts with an image of more than 5 * 1024 * 1024 bytes,
\* or of a MIME type outside the four allowed ones, or with a caption of
\* more than 2200 characters after trimming, is answered 400 and neither
\* uploads an object nor inserts a row; an image of exactly 5 MB with a
\* caption of exactly 2200 characters is not refused, and is stored with
\* that caption when the upload and the insert succeed.
C11_UploadLimits ==
  \A s \in ValidSessions, f \in Forms :
    LET res == Outcomes(DB, NewReq("PostPOST", s, Missing, f))
        tooLarge == f.image.size > 5 * 1024 * 1024
        badType == f.image.type \notin
                     {"image/jpeg", "image/png", "image/webp", "image/gif"}
        tooLong == f.caption.present /\ f.caption.core > 2200
    IN IF f.image.present /\ (tooLarge \/ badType \/ tooLong)
       THEN \A o \in res : o.r.status = 400 /\ o.db = DB
       ELSE (f.image.present /\ f.image.size = 5 * 1024 * 1024
               /\ f.caption.present /\ f.caption.core = 2200) =>
              /\ \A o \in res : o.r.status \in {200, 500}
              /\ \E o \in res :
                   /\ o.r.status = 200
                   /\ o.r.row \in o.db.storage
                   /\ \E x \in o.db.posts \ posts :
                        x.image = o.r.row /\ x.caption = 2200

\* a form at both limits, sent with white space after the caption, has
\* passed the checks, and another request was answered 400
C11_Witness ==
  \E i, j \in Slots :
    /\ reqs[i].op = "PostPOST" /\ reqs[i].pc = "upload"
    /\ reqs[i].content.image.size = MAX_FILE_SIZE
    /\ reqs[i].content.caption.core = MAX_CAPTION_LENGTH
    /\ reqs[i].content.caption.trail > 0
    /\ reqs[j].op = "PostPOST" /\ reqs[j].pc = "done"
    /\ reqs[j].status = 400 /\ reqs[j].clerk \in ValidSessions

\* C12: DELETE /api/posts/p by a user with a users row who does not own p
\* is answered 403 and changes nothing: the post row, its likes and
\* comments and its object in the bucket stay as they were, because the
\* handler compares the owner before it removes anything.
C12_NonOwnerDeleteChangesNothing ==
  /\ [](\A s \in ValidSessions, x \in posts :
          x.user_id # UserIdOf(s) =>
            \A o \in Outcomes(DB, NewReq("PostDELETE", s, x.id, NoContent)) :
              o.r.status = 403 /\ o.db = DB)
  /\ [](\A i \in Slots :
          (reqs[i].op = "PostDELETE" /\ reqs[i].pc \in {"storage", "delete"})
            => \A x \in posts : x.id = reqs[i].arg => x.user_id = reqs[i].uid)
  /\ [][\A i \in Slots :
          (reqs[i].op = "PostDELETE" /\ reqs[i].pc = "post"
             /\ reqs'[i] # reqs[i]
             /\ \E x \in posts : x.id = reqs[i].arg
                                   /\ x.user_id # reqs[i].uid) =>
            /\ reqs'[i].pc = "done" /\ reqs'[i].status = 403
            /\ posts' = posts /\ likes' = likes /\ comments' = comments
            /\ storage' = storage]_vars

\* a user was refused the deletion of another user's post, which is still
\* stored with a like, a comment and its image
C12_Witness ==
  \E i \in Slots, x \in posts :
    /\ reqs[i].op = "PostDELETE" /\ reqs[i].pc = "done"
    /\ reqs[i].status = 403
    /\ x.id = reqs[i].arg /\ x.user_id # reqs[i].uid
    /\ x.image \in storage
    /\ \E e \in DOMAIN likes : e[1] = x.id
    /\ \E c \in comments : c.post_id = x.id

\* C13 as stated: no post, comment, like or follow row is removed or
\* changed by the step of a request of a user other than the one its owner
\* field names (user_id of posts, comments and likes, follower_id of
\* follows).
C13_OnlyOwnersRemoveRows ==
  [][\E i \in Slots :
       /\ reqs'[i] # reqs[i]
       /\ \A x \in posts \ posts' : x.user_id = reqs[i].uid
       /\ \A c \in comments \ comments' : c.user_id = reqs[i].uid
       /\ \A e \in DOMAIN likes :
            CopiesIn(e, likes') < CopiesIn(e, likes) => e[2] = reqs[i].uid
       /\ \A f \in follows \ follows' : f.follower_id = reqs[i].uid]_vars

\* C13 (amended): a post row and a follow row are removed only by the
\* step of a request of the user their owner field names; a comment row and
\* a like row are removed only by such a step or together with their post,
\* by the delete of that post by the post's owner; no row is ever changed.
C13_OwnersOrCascadeRemoveRows ==
  [][\E i \in Slots :
       /\ reqs'[i] # reqs[i]
       /\ \A x \in posts \ posts' :
            /\ x.user_id = reqs[i].uid
            /\ reqs[i].op = "PostDELETE" /\ reqs[i].arg = x.id
       /\ \A f \in follows \ follows' :
            /\ f.follower_id = reqs[i].uid
            /\ reqs[i].op = "FollowDELETE" /\ reqs[i].arg = f.following_id
       /\ \A c \in comments \ comments' :
            \/ /\ c.user_id = reqs[i].uid
               /\ reqs[i].op = "CommentDELETE" /\ reqs[i].arg = c.id
            \/ /\ reqs[i].op = "PostDELETE" /\ reqs[i].arg = c.post_id
               /\ \E x \in posts \ posts' :
                    x.id = c.post_id /\ x.user_id = reqs[i].uid
       /\ \A e \in DOMAIN likes :
            CopiesIn(e, likes') < CopiesIn(e, likes) =>
              \/ /\ e[2] = reqs[i].uid
                 /\ reqs[i].op = "LikeDELETE" /\ reqs[i].arg = e[1]
              \/ /\ reqs[i].op = "PostDELETE" /\ reqs[i].arg = e[1]
                 /\ \E x \in posts \ posts' :
                      x.id = e[1] /\ x.user_id = reqs[i].uid
       /\ \A x \in posts', y \in posts : x.id = y.id => x = y
       /\ \A x \in comments', y \in comments : x.id = y.id => x = y
       /\ \A x \in follows', y \in follows : x.id = y.id => x = y]_vars

\* every kind of row was removed by a request of its owner, while the rows
\* of the other users of the same kind are still stored, and a request of
\* another user was refused
C13_Witness ==
  /\ \E i \in Slots : /\ reqs[i].op = "CommentDELETE"
                      /\ reqs[i].pc = "done" /\ reqs[i].status = 200
  /\ \E i \in Slots : /\ reqs[i].op \in {"CommentDELETE", "PostDELETE"}
                      /\ reqs[i].pc = "done" /\ reqs[i].status = 403
  /\ Cardinality(comments) = MaxUsers - 1
  /\ BagCardinality(likes) < MaxUsers * MaxPosts
  /\ Cardinality(follows) < MaxUsers * (MaxUsers - 1)

\* C18: DELETE /api/likes by user u for post p answers 200 also when no
\* like row (p, u) exists, and then changes nothing; doing it again leaves
\* the state that doing it once left; and it removes no like row of p that
\* belongs to another user.
C18_UnlikeIdempotent ==
  \A s \in ValidSessions, p \in 1..(MaxPosts + 1) :
    LET u == UserIdOf(s)
        unlike == NewReq("LikeDELETE", s, p, NoContent)
    IN \A o1 \in Outcomes(DB, unlike) :
         /\ o1.r.status = 200
         /\ CopiesIn(<<p, u>>, o1.db.likes) = 0
         /\ \A e \in DOMAIN likes :
              e # <<p, u>> => CopiesIn(e, o1.db.likes) = CopiesIn(e, likes)
         /\ o1.db = [DB EXCEPT !.likes = o1.db.likes]
         /\ CopiesIn(<<p, u>>, likes) = 0 => o1.db = DB
         /\ \A o2 \in Outcomes(o1.db, unlike) :
              o2.r.status = 200 /\ o2.db = o1.db

\* two unlikes of the same post by the same user were both answered 200,
\* and the like of another user on that post is still stored
C18_Witness ==
  \E i, j \in Slots :
    /\ i # j
    /\ reqs[i].op = "LikeDELETE" /\ reqs[i].pc = "done"
    /\ reqs[i].status = 200
    /\ reqs[j].op = "LikeDELETE" /\ reqs[j].pc = "done"
    /\ reqs[j].status = 200
    /\ reqs[i].uid = reqs[j].uid /\ reqs[i].arg = reqs[j].arg
    /\ CopiesIn(<<reqs[i].arg, reqs[i].uid>>, likes) = 0
    /\ \E e \in DOMAIN likes : e[1] = reqs[i].arg /\ e[2] # reqs[i].uid

C15_UnauthorizedFirst ==
  /\ \A op \in AuthOps, a \in IdArgs({1, UserIdOf(1)}) :
       \A b \in BodiesOf(op) :
         Step(DB, NewReq(op, NoSession, a, b)) =
           {Out(DB, Respond(NewReq(op, NoSession, a, b), 401))}
  /\ \A l \in LimitParams, o \in OffsetParams, f \in Filters :
       GetPosts(DB, NoSession, l, o, f) = PostsError(401)
  /\ \A i \in Slots :
       (reqs[i].op \in AuthOps /\ reqs[i].clerk = NoSession) =>
         /\ reqs[i].pc = "done" /\ reqs[i].status = 401
         /\ reqs[i].uid = 0 /\ reqs[i].row = 0

\* requests without a session and without an id in the body were answered
\* 401, after a post and a like were stored
C15_Witness ==
  /\ \E i \in Slots :
       /\ reqs[i].op \in AuthOps \ {"PostPOST"} /\ reqs[i].clerk = NoSession
       /\ reqs[i].arg = Missing /\ reqs[i].status = 401
  /\ nextObjectId > MaxPosts + 1
  /\ storage # {}

\* C16: of the concurrent POST /api/follows requests of a user A for
\* another user B, with no row (A, B) before them, at most one stores a
\* row and is answered 200, every other one that has been answered got
\* 400, whether it found the row in its check or its insert violated the
\* unique constraint, and once all are answered exactly one succeeded and
\* exactly one row (A, B) is stored.
C16_OneFollowWins ==
  /\ [](\A a \in ValidSessions, b \in ValidSessions :
          LET S == {i \in Slots : /\ reqs[i].op = "FollowPOST"
                                  /\ reqs[i].clerk = a
                                  /\ reqs[i].arg = UserIdOf(b)}
              answered == {i \in S : reqs[i].pc = "done"}
              ok == {i \in answered : reqs[i].status = 200}
              stored == FollowRows(DB, UserIdOf(a), UserIdOf(b))
          IN a # b =>
               /\ Cardinality(stored) <= 1
               /\ Cardinality(ok) = Cardinality(stored)
               /\ \A i \in ok : reqs[i].row = TheRow(stored).id
               /\ \A i \in answered \ ok : reqs[i].status = 400
               /\ (S # {} /\ answered = S) => Cardinality(ok) = 1)
  /\ [][\A i \in Slots :
          (reqs[i].op = "FollowPOST" /\ reqs'[i].pc = "done"
             /\ reqs[i].pc \in {"existing", "insert"}
             /\ FollowRows(DB, reqs[i].uid, reqs[i].arg) # {}) =>
            reqs'[i].status = 400 /\ follows' = follows]_vars

\* two requests of the same user for the same other user: one answered
\* 200, the other 400, one row stored
C16_Witness ==
  \E i, j \in Slots :
    /\ reqs[i].op = "FollowPOST" /\ reqs[i].pc = "done"
    /\ reqs[i].status = 200
    /\ reqs[j].op = "FollowPOST" /\ reqs[j].pc = "done"
    /\ reqs[j].status = 400
    /\ reqs[j].arg = reqs[i].arg /\ reqs[j].uid = reqs[i].uid
    /\ Cardinality(FollowRows(DB, reqs[i].uid, reqs[i].arg)) = 1

\* C17: an answered GET /api/posts returns the newest matching posts in
\* descending order of creation; without a limit it returns at most 10 of
\* them, without an offset it starts at the newest one, and with any limit
\* it returns at most 50 (exactly min(limit, 50) when that many remain, so
\* at most 50 for limit=100).
C17_DefaultsAndCap ==
  probe.status = 200 =>
    LET M == {x \in posts : probe.userId = NoFilter
                              \/ x.user_id = probe.userId}
        at(k) == CHOOSE x \in M : x.id = probe.ids[k]
        size == IF probe.limit = AbsentParam THEN 10
                ELSE IF probe.limit > 50 THEN 50 ELSE probe.limit
        skip == IF probe.offset = AbsentParam THEN 0 ELSE probe.offset
        n == Len(probe.ids)
    IN /\ n <= 50
       /\ n = Min(size, IF Cardinality(M) > skip
                           THEN Cardinality(M) - skip ELSE 0)
       /\ \A k \in 1..n : \E x \in M : x.id = probe.ids[k]
       /\ \A k \in 1..(n - 1) : at(k).created_at > at(k + 1).created_at
       /\ n > 0 =>
            Cardinality({x \in M : x.created_at > at(1).created_at}) = skip

\* limit=100 was asked of a table with more than 50 matching posts, and 50
\* came back
C17_Witness ==
  /\ probe.status = 200
  /\ probe.limit = GRID_LIMIT
  /\ probe.userId = NoFilter
  /\ Cardinality(posts) > LIMIT_CAP
  /\ Len(probe.ids) = LIMIT_CAP

\* C19: POST /api/posts uploads the image, takes its public URL and then
\* inserts the row.  A row is inserted only by a request whose upload
\* stored the object the row points to; a failed upload is answered 500
\* with no row and no object; a failed insert leaves no row, is followed by
\* one attempt to remove the uploaded object, and is answered 500 whether
\* the object was removed or not.
C19_UploadThenInsert ==
  [][\A i \in Slots :
       (reqs'[i] # reqs[i] /\ reqs'[i].op = "PostPOST") =>
         LET r == reqs[i]
             q == reqs'[i]
             running == r.op = "PostPOST" /\ r.pc \notin {"idle", "done"}
         IN /\ q.pc = "upload" => ~running
            /\ q.pc = "insert" =>
                 /\ running /\ r.pc = "upload"
                 /\ q.row \notin storage /\ storage' = storage \cup {q.row}
                 /\ posts' = posts
            /\ (running /\ r.pc = "upload" /\ q.pc # "insert") =>
                 /\ q.pc = "done" /\ q.status = 500
                 /\ posts' = posts /\ storage' = storage
            /\ posts' # posts =>
                 /\ running /\ r.pc = "insert" /\ r.row \in storage
                 /\ q.pc = "done" /\ q.status = 200
                 /\ storage' = storage
                 /\ \E x \in posts' \ posts :
                      /\ posts' = posts \cup {x}
                      /\ x.image = r.row /\ x.user_id = r.uid
            /\ (running /\ r.pc = "insert" /\ posts' = posts) =>
                 q.pc = "rollback" /\ storage' = storage
            /\ q.pc = "rollback" => running /\ r.pc = "insert"
            /\ (running /\ r.pc = "rollback") =>
                 /\ q.pc = "done" /\ q.status = 500
                 /\ posts' = posts
                 /\ storage' \in {storage, storage \ {r.row}}]_vars

\* an insert failed after the upload, the removal of the object failed too,
\* and the request was answered 500: the object is stored without a row
C19_Witness ==
  \E i \in Slots :
    /\ reqs[i].op = "PostPOST" /\ reqs[i].pc = "done"
    /\ reqs[i].status = 500
    /\ reqs[i].row \in storage
    /\ \A x \in posts : x.image # reqs[i].row

\* C20: in DELETE /api/posts/[postId] by the owner, the removal of the
\* stored object comes before the deletion of the row whenever the
\* image_url names an object of the bucket, and neither its failure nor an
\* image_url that names no object stops the handler: it goes on to delete
\* the row and answers 200, or 500 when the row delete itself fails.
C20_StorageNeverBlocks ==
  [][\A i \in Slots :
       (reqs'[i] # reqs[i] /\ reqs'[i].op = "PostDELETE") =>
         LET r == reqs[i]
             q == reqs'[i]
             running == r.op = "PostDELETE" /\ r.pc \notin {"idle", "done"}
             found == {x \in posts : x.id = r.arg}
         IN /\ (running /\ r.pc = "post" /\ found # {}
                  /\ \A x \in found : x.user_id = r.uid) =>
                 /\ q.pc = IF \E x \in found : x.image # 0
                           THEN "storage" ELSE "delete"
                 /\ posts' = posts /\ storage' = storage
            /\ (running /\ r.pc = "storage") =>
                 /\ q.pc = "delete"
                 /\ posts' = posts
                 /\ storage' \in {storage, storage \ {r.row}}
            /\ (running /\ r.pc = "delete") =>
                 /\ q.pc = "done"
                 /\ \/ /\ q.status = 200
                       /\ posts' = {x \in posts : x.id # r.arg}
                    \/ /\ q.status = 500
                       /\ posts' = posts
                 /\ storage' = storage
            /\ posts' # posts => running /\ r.pc = "delete"
            /\ storage' # storage => running /\ r.pc = "storage"]_vars

\* the owner's request was answered 200 and the row is gone, while the
\* object of the post is still stored: its removal had failed
C20_Witness ==
  \E i \in Slots :
    /\ reqs[i].op = "PostDELETE" /\ reqs[i].pc = "done"
    /\ reqs[i].status = 200
    /\ reqs[i].row # 0 /\ reqs[i].row \in storage
    /\ ~PostExists(DB, reqs[i].arg)

\* C21: a click on the LikeButton flips liked and moves likesCount by one
\* while the request has not been handled yet; a handleClick that ends with
\* an answer that is not OK, or with an exception, puts back the liked and
\* likesCount of the moment of the click and does not call onLikeChange;
\* onLikeChange is called, with the new values, exactly when the answer is
\* OK.
C21_OptimisticLike ==
  [][LET b == likeButton
         c == likeButton'
     IN /\ (b.pc = "idle" /\ c.pc = "waiting") =>
             /\ c.liked = ~b.liked
             /\ c.likesCount = IF b.liked THEN b.likesCount - 1
                               ELSE b.likesCount + 1
             /\ c.previousLiked = b.liked
             /\ c.previousCount = b.likesCount
             /\ c.req.pc = "start" /\ c.req.status = 0
             /\ c.changes = b.changes
        /\ (b.pc = "waiting" /\ c.pc = "waiting") =>
             /\ c.liked = b.liked /\ c.likesCount = b.likesCount
             /\ c.previousLiked = b.previousLiked
             /\ c.previousCount = b.previousCount
             /\ c.changes = b.changes
        /\ (b.pc = "waiting" /\ c.pc = "idle") =>
             IF c.outcome = "ok"
             THEN /\ b.req.pc = "done" /\ b.req.status = 200
                  /\ c.liked = ~b.previousLiked
                  /\ c.likesCount = IF b.previousLiked
                                    THEN b.previousCount - 1
                                    ELSE b.previousCount + 1
                  /\ c.changes = Append(b.changes,
                                        <<c.liked, c.likesCount>>)
             ELSE /\ c.outcome \in {"failed", "threw"}
                  /\ c.outcome = "failed" =>
                       b.req.pc = "done" /\ b.req.status # 200
                  /\ c.liked = b.previousLiked
                  /\ c.likesCount = b.previousCount
                  /\ c.changes = b.changes]_vars

\* a like was answered 409 and rolled back, after an earlier click had
\* succeeded and was reported
C21_Witness ==
  /\ likeButton.pc = "idle"
  /\ likeButton.outcome = "failed"
  /\ likeButton.req.status = 409
  /\ ~likeButton.liked
  /\ Len(likeButton.changes) = 1

\* C22 as stated: a click on the FollowButton sets isFollowing and
\* followersCount to their new values while the request has not been
\* answered, and a failed request puts both back to the values of the
\* moment of the click.
C22_OptimisticFollow ==
  [][LET b == followButton
         c == followButton'
     IN /\ (b.pc = "idle" /\ c.pc = "waiting") =>
             /\ c.isFollowing = ~b.isFollowing
             /\ c.followersCount # b.followersCount
        /\ (b.pc = "waiting" /\ c.pc = "idle"
              /\ c.outcome \in {"failed", "threw"}) =>
             /\ c.isFollowing = b.previousState
             /\ c.followersCount = b.previousCount]_vars

\* C22 (what the component does): a click only sets isLoading; isFollowing
\* and followersCount keep their values until the answer, take the new
\* values when the answer is OK, and keep the values of the moment of the
\* click when the request fails.
C22_FollowAfterAnswer ==
  [][LET b == followButton
         c == followButton'
     IN /\ (b.pc = "idle" /\ c.pc = "waiting") =>
             /\ c.isLoading
             /\ c.isFollowing = b.isFollowing
             /\ c.followersCount = b.followersCount
        /\ (b.pc = "waiting" /\ c.pc = "waiting") =>
             /\ c.isFollowing = b.isFollowing
             /\ c.followersCount = b.followersCount
        /\ (b.pc = "waiting" /\ c.pc = "idle") =>
             IF c.outcome = "ok"
             THEN /\ b.req.status = 200
                  /\ c.isFollowing = ~b.isFollowing
                  /\ c.changes = Append(b.changes,
                                   <<c.isFollowing, c.followersCount>>)
             ELSE /\ c.isFollowing = b.isFollowing
                  /\ c.followersCount = b.followersCount
                  /\ c.changes = b.changes]_vars

\* a follow request of the button is being handled by the server while the
\* button still shows the old state
C22_Witness ==
  /\ followButton.pc = "waiting"
  /\ followButton.req.op = "FollowPOST"
  /\ followButton.req.pc = "insert"
  /\ ~followButton.isFollowing
  /\ followButton.isLoading

\* C23: the feed has at most one /api/posts request in flight.  A load-more
\* starts only when the feed is loaded without an error, hasMore is true
\* and no load is in flight; its answer appends the posts it carries after
\* the loaded ones and moves offset by their number; its failure leaves the
\* loaded posts and offset as they were.
C23_OneFeedRequest ==
  /\ [](Cardinality(feed.inflight) <= 1)
  /\ [][LET f == feed
            g == feed'
        IN /\ (\E q \in g.inflight \ f.inflight : q.append) =>
                /\ f.inflight = {} /\ f.isLoaded
                /\ ~f.isLoading /\ ~f.isLoadingMore /\ ~f.error
                /\ f.hasMore
                /\ Cardinality(g.inflight) = 1
                /\ \A q \in g.inflight : q.offset = f.offset
                /\ g.posts = f.posts /\ g.offset = f.offset
           /\ (\E q \in f.inflight \ g.inflight : q.append) =>
                /\ g.inflight = {} /\ ~g.isLoadingMore
                /\ IF g.error
                   THEN g.posts = f.posts /\ g.offset = f.offset
                   ELSE /\ Len(g.posts) >= Len(f.posts)
                        /\ SubSeq(g.posts, 1, Len(f.posts)) = f.posts
                        /\ g.offset = f.offset + Len(g.posts) - Len(f.posts)
                        /\ LET page == GetPosts(DB, f.clerk, 10, f.offset,
                                                f.userId).data
                           IN SubSeq(g.posts, Len(f.posts) + 1, Len(g.posts))
                                = Ids(page)]_vars

\* a load-more has been answered and its posts stand after the first page
C23_Witness ==
  /\ feed.inflight = {}
  /\ ~feed.error
  /\ feed.fetches = 2
  /\ Len(feed.posts) > FEED_LIMIT
  /\ feed.offset = Len(feed.posts)

\* C26 as stated: the list of the feed never holds a post id twice, whatever
\* posts other users create or delete between the fetches of its pages.
C26_NoDuplicatePosts ==
  \A j, k \in 1..Len(feed.posts) : feed.posts[j] = feed.posts[k] => j = k

\* C24 as stated: while the modal shows post p, its comments_count and the
\* count last passed to onPostChange equal the fetched comments_count plus
\* the submissions minus the deletions that have succeeded, also when one
\* of them completes while the other is in flight.
C24_CountFollowsComments ==
  (modal.postId # 0 /\ modal.post # NoPost) =>
    /\ modal.post.comments_count =
         modal.fetched + modal.submitted - modal.deleted
    /\ modal.reported # AbsentParam =>
         modal.reported = modal.fetched + modal.submitted - modal.deleted

LikedBy(c, p) ==
  \E u \in users : u.clerk_id = c /\ BagIn(<<p, u.id>>, likes)

\* C25: in every state that like, unlike and post deletion requests of all
\* users reach, each post GET /api/posts returns to a session, and the post
\* GET /api/posts/[postId] returns to it, has is_liked true exactly when a
\* likes row of that session's user exists for the post (so the likes of
\* other users do not matter), and GET /api/posts/[postId] without a
\* session answers 200 with is_liked false for every existing post.
C25_IsLikedIsOwnLike ==
  /\ \A c \in Sessions, p \in PostArgs :
       LET res == GetPost(DB, c, p) IN
       res.status = 200 => (res.is_liked <=> LikedBy(c, p))
  /\ \A c \in Sessions :
       LET res == GetPosts(DB, c, AbsentParam, AbsentParam, NoFilter) IN
       \A k \in 1..Len(res.data) :
         res.data[k].is_liked <=> LikedBy(c, res.data[k].id)
  /\ \A p \in PostArgs :
       PostExists(DB, p) =>
         /\ GetPost(DB, NoSession, p).status = 200
         /\ ~GetPost(DB, NoSession, p).is_liked

\* a post is liked by the second user only: its owner's GET answers false,
\* the second user's true, an unauthenticated one 200
C25_Witness ==
  /\ LikedBy(2, 1) /\ ~LikedBy(1, 1)
  /\ GetPost(DB, 2, 1).is_liked
  /\ ~GetPost(DB, 1, 1).is_liked
  /\ GetPost(DB, 1, 1).status = 200
  /\ GetPost(DB, NoSession, 1).status = 200
  /\ GetPosts(DB, 1, AbsentParam, AbsentParam, NoFilter).status = 200

\* C28 as stated: in every state, the image object of every posts row
\* created by POST /api/posts is in the bucket, whatever create and delete
\* requests ran and whichever of their storage and database calls failed.
C28_RowsHaveObjects ==
  \A x \in posts : x.id > MaxPosts => x.image \in storage

\* C28, the part that holds: a posts row is inserted only while the object
\* of its image_url is in the bucket.
C28_InsertedWithObject ==
  [][\A x \in posts' \ posts : x.image \in storage']_vars

\* a created post with its object
C28_Witness ==
  \E x \in posts : x.id > MaxPosts /\ x.image \in storage

\* C29 as stated, in the case most favourable to it, an answer that
\* reaches the button before any other request is served: at the moment
\* the server has answered the request of a click, the liked flag that
\* handleClick settles on for this answer (the new one for an OK answer,
\* the previous one otherwise) equals whether a likes row of the button's
\* user for its post is stored, whatever requests other sessions of that
\* user made for the post before.
C29_ButtonAgreesWithServer ==
  [][(likeButton.pc = "waiting" /\ likeButton.req.pc # "done"
        /\ likeButton'.req.pc = "done") =>
       ((IF ResponseOk(likeButton'.req.status)
         THEN likeButton.newLiked ELSE likeButton.previousLiked) <=>
          BagIn(<<likeButton.postId, UserIdOf(likeButton.clerk)>>, likes'))
    ]_vars

\* C30: over a fixed set of posts and with every fetch answered, the feed
\* that is started by the initial load and whose sentinel intersects
\* whenever its observer is installed ends up, for good, with hasMore false
\* and no fetch in flight, and from such a state on it starts no fetch; the
\* count of its fetches never comes to hold back an installed observer.
C30_FeedTerminates ==
  /\ <>[](~feed.hasMore /\ feed.inflight = {})
  /\ [][(~feed.hasMore /\ feed.inflight = {}) =>
          (feed'.fetches = feed.fetches /\ feed'.inflight = {})]_vars
  /\ [](ObserverInstalled(feed) => feed.fetches < MaxFetches)

\* a feed of more than two pages has been scrolled to its end
C30_Witness ==
  /\ ~feed.hasMore /\ feed.inflight = {}
  /\ feed.fetches >= 3
  /\ Len(feed.posts) > 2 * FEED_LIMIT
  /\ Len(feed.posts) = Cardinality(posts)

=============================================================================
